---- MODULE Spec2Model ----
(***************************************************************************)
(* Cost tracking core of the agent CLI / API server: the SQLite cost      *)
(* record and alert store (internal/storage), the cost service with its   *)
(* trend and forecast engine (internal/cost), the alert evaluation of the *)
(* CLI and of the HTTP API, and the free-tier classifier.                 *)
(*                                                                         *)
(* float64 values are modelled as exact rationals [n, d] in lowest terms  *)
(* with d > 0; d = 0 stands for the IEEE results of a division by zero    *)
(* (n > 0: +Inf, n < 0: -Inf, n = 0: NaN).  Rounding error of the binary  *)
(* representation is not modelled.                                         *)
(***************************************************************************)
EXTENDS Integers, Sequences, FiniteSets, TLC

VARIABLES
    records,      \* rows of table cost_records, in insertion order
    nextId,       \* next AUTOINCREMENT id of cost_records
    alerts,       \* rows of table alerts, in insertion order
    nextAlertId,  \* next AUTOINCREMENT id of alerts
    config,       \* rows of table config: at most one value for a key
    tx,           \* the transaction of a SaveCostRecords that is under way
    reader,       \* a GetCostSummary that is between its two queries
    op,           \* the operation that completed last
    arg,          \* its inputs
    ret,          \* its result (value and error)
    calls         \* the collaborator calls it made, in order

vars == <<records, nextId, alerts, nextAlertId, config, tx, reader, op, arg, ret, calls>>

(***************************************************************************)
(* Bounds of the model.                                                    *)
(***************************************************************************)
MaxRecords == 3
MaxBatch == 2
MaxAlerts == 2
MaxMonths == 6
MaxAlertSaves == 3
MaxResponse == 1
MaxHistoryMonths == 7

(***************************************************************************)
(* float64 arithmetic as exact rationals.                                  *)
(***************************************************************************)
Abs(i) == IF i < 0 THEN -i ELSE i

Sign(i) == IF i < 0 THEN -1 ELSE IF i > 0 THEN 1 ELSE 0

RECURSIVE Gcd(_, _)
Gcd(a, b) == IF b = 0 THEN a ELSE Gcd(b, a % b)

Rat(n, d) ==
    IF d = 0 THEN [n |-> Sign(n), d |-> 0]
    ELSE LET g == Gcd(Abs(n), Abs(d))
             s == Sign(d)
         IN  [n |-> (s * n) \div g, d |-> (s * d) \div g]

Int2R(i) == [n |-> i, d |-> 1]

Zero == Int2R(0)

IsNaN(a) == a.d = 0 /\ a.n = 0

IsFinite(a) == a.d # 0

RAdd(a, b) ==
    IF a.d = 0 /\ b.d = 0 THEN Rat(IF a.n = b.n THEN a.n ELSE 0, 0)
    ELSE IF a.d = 0 THEN a
    ELSE IF b.d = 0 THEN b
    ELSE Rat(a.n * b.d + b.n * a.d, a.d * b.d)

RNeg(a) == [n |-> -a.n, d |-> a.d]

RSub(a, b) == RAdd(a, RNeg(b))

RMul(a, b) == Rat(a.n * b.n, a.d * b.d)

RDiv(a, b) ==
    IF b.d = 0 THEN (IF a.d = 0 THEN Rat(0, 0) ELSE Zero)
    ELSE IF a.d = 0 THEN Rat(a.n * (IF b.n < 0 THEN -1 ELSE 1), 0)
    ELSE Rat(a.n * b.d, a.d * b.n)

\* Comparisons; every comparison with NaN is false, as in IEEE 754.
RLt(a, b) == ~IsNaN(a) /\ ~IsNaN(b) /\
    IF a.d = 0 /\ b.d = 0 THEN a.n < b.n
    ELSE IF a.d = 0 THEN a.n < 0
    ELSE IF b.d = 0 THEN b.n > 0
    ELSE a.n * b.d < b.n * a.d

RGt(a, b) == RLt(b, a)

REq(a, b) == ~IsNaN(a) /\ ~IsNaN(b) /\ a = b

RGe(a, b) == RGt(a, b) \/ REq(a, b)

\* math.Round(x): nearest integer, halves away from zero (x finite).
Round(a) ==
    LET q == (2 * Abs(a.n) + a.d) \div (2 * a.d)
    IN  Int2R(Sign(a.n) * q)

\* math.Round(x*100) / 100
Round2(a) == IF a.d = 0 THEN a ELSE RDiv(Round(RMul(a, Int2R(100))), Int2R(100))

(***************************************************************************)
(* Dates.  A date "YYYY-MM-DD" is [m, d]: m counts the months, d is the   *)
(* day of the month; the text order of well-formed dates is this order.   *)
(***************************************************************************)
Date(m, d) == [m |-> m, d |-> d]

DateGE(a, b) == a.m > b.m \/ (a.m = b.m /\ a.d >= b.d)

\* strftime('%Y-%m', date)
MonthOf(date) == date.m

\* date('now')
Now == Date(20, 15)

\* date('now', '-<months> months')
MonthsAgo(months) == Date(Now.m - months, Now.d)

(***************************************************************************)
(* Table cost_records.                                                     *)
(***************************************************************************)
SubscriptionID == "sub-1"

CostRecord(id, rg, svc, cost, cur, date) ==
    [id |-> id, sub |-> SubscriptionID, rg |-> rg, svc |-> svc,
     cost |-> cost, cur |-> cur, date |-> date]

\* One INSERT INTO cost_records: the row gets the next id.
InsertRow(rows, id, r) ==
    Append(rows, CostRecord(id, r.rg, r.svc, r.cost, r.cur, r.date))

\* tx.Rollback(): the rows written inside the transaction are discarded.
RollbackKeepsRows(committed, written) == committed \o written

Rollback(committed, written) == committed

\* tx.Commit(): the rows written inside the transaction join the table.
CommitReplacing(committed, written) ==
    SelectSeq(committed,
              LAMBDA c : \A i \in DOMAIN written :
                  c.svc # written[i].svc \/ c.date # written[i].date)
    \o written

Commit(committed, written) == committed \o written

\* The loop of SaveCostRecords over the batch: stmt.Exec for each record in
\* order, stopping at the first Exec that fails (failAt; 0: none fails).
RECURSIVE ExecBatch(_, _, _, _)
ExecBatch(written, batch, i, failAt) ==
    IF i > Len(batch) THEN [rows |-> written, err |-> FALSE]
    ELSE IF i = failAt THEN [rows |-> written, err |-> TRUE]
    ELSE ExecBatch(InsertRow(written, nextId + Len(written), batch[i]),
                   batch, i + 1, failAt)

\* SaveCostRecords as a function of the table: the table after the call and
\* the error returned.  fail names the step that fails: "begin", "prepare",
\* "commit", "none", or "exec" with the position k of the failing Exec.
SaveCostRecordsResult(committed, batch, fail) ==
    IF fail.step = "begin" \/ fail.step = "prepare"
    THEN [rows |-> committed, err |-> TRUE]
    ELSE LET ex == ExecBatch(<<>>, batch, 1, fail.k)
         IN  IF ex.err THEN [rows |-> Rollback(committed, ex.rows), err |-> TRUE]
             ELSE IF fail.step = "commit"
             THEN [rows |-> Rollback(committed, ex.rows), err |-> TRUE]
             ELSE [rows |-> Commit(committed, ex.rows), err |-> FALSE]

\* Rows a provider or a caller can hand to the store.
Usd == "USD"

Row(rg, svc, cost, cur, date) ==
    [rg |-> rg, svc |-> svc, cost |-> cost, cur |-> cur, date |-> date]

Rows ==
    { Row("rg1", "vm",   Rat(732, 100),  Usd,   Date(Now.m, 10)),
      Row("",    "blob", Rat(5005, 1000), Usd,  Date(Now.m - 1, 10)),
      Row("rg2", "vm",   Rat(1268, 100), "EUR", Date(Now.m, 20)),
      Row("rg1", "blob", Int2R(100),     Usd,   Date(Now.m - 13, 20)) }

(***************************************************************************)
(* GetMonthlyCosts: SUM(cost) of the rows with date >= date('now', '-N    *)
(* months'), grouped by month and currency, ordered by month descending.  *)
(* SQL leaves the order of two groups of the same month open, so the      *)
(* query has a set of possible results.                                    *)
(***************************************************************************)
InLookbackWholeTable(r, months) == TRUE

InLookback(r, months) == DateGE(r.date, MonthsAgo(months))

InGroup(r, months, g) ==
    InLookback(r, months) /\ MonthOf(r.date) = g[1] /\ r.cur = g[2]

\* SUM(cost) of the group g, over the rows from position i on.
RECURSIVE SumGroupFrom(_, _, _, _)
SumGroupFrom(rows, i, months, g) ==
    IF i > Len(rows) THEN Zero
    ELSE IF InGroup(rows[i], months, g)
         THEN RAdd(rows[i].cost, SumGroupFrom(rows, i + 1, months, g))
         ELSE SumGroupFrom(rows, i + 1, months, g)

MonthlyGroups(rows, months) ==
    { <<MonthOf(rows[i].date), rows[i].cur>> :
        i \in { j \in 1..Len(rows) : InLookback(rows[j], months) } }

MonthlyCost(rows, months, g) ==
    [Month |-> g[1], TotalCost |-> SumGroupFrom(rows, 1, months, g), Currency |-> g[2]]

RECURSIVE Perms(_)
Perms(S) ==
    IF S = {} THEN {<<>>}
    ELSE UNION { { <<x>> \o p : p \in Perms(S \ {x}) } : x \in S }

RECURSIVE OrderByMonthDesc(_)
OrderByMonthDesc(entries) ==
    IF entries = {} THEN {<<>>}
    ELSE LET m == CHOOSE k \in { e.Month : e \in entries } :
                      \A e \in entries : e.Month <= k
             top == { e \in entries : e.Month = m }
         IN  UNION { { p \o q : q \in OrderByMonthDesc(entries \ top) } :
                     p \in Perms(top) }

GetMonthlyCosts(rows, months) ==
    OrderByMonthDesc({ MonthlyCost(rows, months, g) : g \in MonthlyGroups(rows, months) })

(***************************************************************************)
(* Trend and forecast engine (cost.Service).                               *)
(***************************************************************************)
\* The loop of calculateProjection: the sums over x = 0..n-1 in the order of
\* the slice, accumulated from element i on.
RECURSIVE RegressionSums(_, _, _)
RegressionSums(monthlyCosts, i, acc) ==
    IF i > Len(monthlyCosts) THEN acc
    ELSE LET x == Int2R(i - 1)
             y == monthlyCosts[i].TotalCost
         IN  RegressionSums(monthlyCosts, i + 1,
                 [sumX  |-> RAdd(acc.sumX, x),
                  sumY  |-> RAdd(acc.sumY, y),
                  sumXY |-> RAdd(acc.sumXY, RMul(x, y)),
                  sumX2 |-> RAdd(acc.sumX2, RMul(x, x))])

ZeroSums == [sumX |-> Zero, sumY |-> Zero, sumXY |-> Zero, sumX2 |-> Zero]

Reverse(s) == [i \in 1..Len(s) |-> s[Len(s) + 1 - i]]

ProjectionFromSums(len, sm) ==
    LET n == Int2R(len)
        slope == RDiv(RSub(RMul(n, sm.sumXY), RMul(sm.sumX, sm.sumY)),
                      RSub(RMul(n, sm.sumX2), RMul(sm.sumX, sm.sumX)))
        intercept == RDiv(RSub(sm.sumY, RMul(slope, sm.sumX)), n)
        nextMonthIndex == Int2R(len)
    IN  RAdd(RMul(slope, nextMonthIndex), intercept)

calculateProjectionOldestFirst(monthlyCosts) ==
    IF Len(monthlyCosts) < 2 THEN Zero
    ELSE ProjectionFromSums(Len(monthlyCosts),
                            RegressionSums(Reverse(monthlyCosts), 1, ZeroSums))

calculateProjection(monthlyCosts) ==
    IF Len(monthlyCosts) < 2 THEN Zero
    ELSE ProjectionFromSums(Len(monthlyCosts),
                            RegressionSums(monthlyCosts, 1, ZeroSums))

RECURSIVE SumTotals(_, _)
SumTotals(monthlyCosts, i) ==
    IF i > Len(monthlyCosts) THEN Zero
    ELSE RAdd(monthlyCosts[i].TotalCost, SumTotals(monthlyCosts, i + 1))

\* The trend label of a change in percent.
TrendOfInclusive(changePercent) ==
    IF RGe(changePercent, Int2R(5)) THEN "increasing"
    ELSE IF RGe(Int2R(-5), changePercent) THEN "decreasing"
    ELSE "stable"

TrendOf(changePercent) ==
    IF RGt(changePercent, Int2R(5)) THEN "increasing"
    ELSE IF RLt(changePercent, Int2R(-5)) THEN "decreasing"
    ELSE "stable"

\* The TrendAnalysis returned for an empty history.
NoDataTrendAsStable ==
    [CurrentMonth |-> Zero, PreviousMonth |-> Zero, ChangePercent |-> Zero,
     Trend |-> "stable", AverageMonthly |-> Rat(0, 0), Projection |-> Zero]

NoDataTrend ==
    [CurrentMonth |-> Zero, PreviousMonth |-> Zero, ChangePercent |-> Zero,
     Trend |-> "no_data", AverageMonthly |-> Zero, Projection |-> Zero]

\* GetTrendAnalysis after a successful read of the monthly costs.
TrendAnalysisLabelsRounded(monthlyCosts) ==
    IF Len(monthlyCosts) = 0
    THEN NoDataTrend
    ELSE LET currentMonth == monthlyCosts[1].TotalCost
             previousMonth == IF Len(monthlyCosts) > 1
                              THEN monthlyCosts[2].TotalCost ELSE Zero
             changePercent ==
                 IF RGt(previousMonth, Zero)
                 THEN RMul(RDiv(RSub(currentMonth, previousMonth), previousMonth),
                           Int2R(100))
                 ELSE Zero
             averageMonthly == RDiv(SumTotals(monthlyCosts, 1),
                                    Int2R(Len(monthlyCosts)))
             projection == calculateProjection(monthlyCosts)
         IN  [CurrentMonth |-> currentMonth,
              PreviousMonth |-> previousMonth,
              ChangePercent |-> Round2(changePercent),
              Trend |-> TrendOf(Round2(changePercent)),
              AverageMonthly |-> Round2(averageMonthly),
              Projection |-> Round2(projection)]

TrendAnalysis(monthlyCosts) ==
    IF Len(monthlyCosts) = 0
    THEN NoDataTrend
    ELSE LET currentMonth == monthlyCosts[1].TotalCost
             previousMonth == IF Len(monthlyCosts) > 1
                              THEN monthlyCosts[2].TotalCost ELSE Zero
             changePercent ==
                 IF RGt(previousMonth, Zero)
                 THEN RMul(RDiv(RSub(currentMonth, previousMonth), previousMonth),
                           Int2R(100))
                 ELSE Zero
             averageMonthly == RDiv(SumTotals(monthlyCosts, 1),
                                    Int2R(Len(monthlyCosts)))
             projection == calculateProjection(monthlyCosts)
         IN  [CurrentMonth |-> currentMonth,
              PreviousMonth |-> previousMonth,
              ChangePercent |-> Round2(changePercent),
              Trend |-> TrendOf(changePercent),
              AverageMonthly |-> Round2(averageMonthly),
              Projection |-> Round2(projection)]

\* The confidence of a local forecast over len monthly data points.
ConfidenceOfEarly(len) ==
    IF len >= 5 THEN "high" ELSE IF len >= 3 THEN "medium" ELSE "low"

ConfidenceOf(len) ==
    IF len >= 6 THEN "high" ELSE IF len >= 4 THEN "medium" ELSE "low"

\* GetLocalForecast after a successful read of the monthly costs.
LocalForecast(monthlyCosts) ==
    IF Len(monthlyCosts) < 2
    THEN [NextMonth |-> Zero, Confidence |-> "low"]
    ELSE LET p == calculateProjection(monthlyCosts)
             projection == IF RLt(p, Zero) THEN Zero ELSE p
         IN  [NextMonth |-> Round2(projection),
              Confidence |-> ConfidenceOf(Len(monthlyCosts))]

\* The outcome of a call that returns (value, error).
Ok(v) == [err |-> FALSE, val |-> v]

Failed == [err |-> TRUE]

\* GetForecast, given the outcome of GetLocalForecast and the outcome the
\* remote provider would give: the result and the calls made, in order.
GetForecastAlwaysRemote(local, remote) ==
    IF remote.err
    THEN [ret |-> IF ~local.err THEN Ok(local.val) ELSE Failed,
          calls |-> <<"GetLocalForecast", "azureCost.GetForecast">>]
    ELSE [ret |-> Ok([NextMonth |-> remote.val, Confidence |-> "medium"]),
          calls |-> <<"GetLocalForecast", "azureCost.GetForecast">>]

GetForecastNoFallback(local, remote) ==
    IF ~local.err /\ local.val.Confidence # "low"
    THEN [ret |-> Ok(local.val), calls |-> <<"GetLocalForecast">>]
    ELSE IF remote.err
    THEN [ret |-> Failed,
          calls |-> <<"GetLocalForecast", "azureCost.GetForecast">>]
    ELSE [ret |-> Ok([NextMonth |-> remote.val, Confidence |-> "medium"]),
          calls |-> <<"GetLocalForecast", "azureCost.GetForecast">>]

GetForecastResult(local, remote) ==
    IF ~local.err /\ local.val.Confidence # "low"
    THEN [ret |-> Ok(local.val), calls |-> <<"GetLocalForecast">>]
    ELSE IF remote.err
    THEN [ret |-> IF ~local.err THEN Ok(local.val) ELSE Failed,
          calls |-> <<"GetLocalForecast", "azureCost.GetForecast">>]
    ELSE [ret |-> Ok([NextMonth |-> remote.val, Confidence |-> "medium"]),
          calls |-> <<"GetLocalForecast", "azureCost.GetForecast">>]

Batches == UNION { [1..k -> Rows] : k \in 0..MaxBatch }

Failures(batch) ==
    { [step |-> s, k |-> 0] : s \in {"none", "begin", "prepare", "commit"} }
    \cup { [step |-> "exec", k |-> k] : k \in 1..Len(batch) }

NoRet == [err |-> FALSE]

\* No transaction is open.  commits lists the lengths the table had after
\* each commit, for the properties.
NoTx == [open |-> FALSE, batch |-> <<>>, i |-> 0, written |-> <<>>, commits |-> {0}]

NoReader == [busy |-> FALSE]

Init ==
    /\ records = <<>>
    /\ nextId = 1
    /\ alerts = <<>>
    /\ nextAlertId = 1
    /\ config = {}
    /\ op = "init"
    /\ arg = <<>>
    /\ ret = NoRet
    /\ calls = <<>>
    /\ tx = NoTx
    /\ reader = NoReader

SaveCostRecords ==
    \E batch \in Batches : \E fail \in Failures(batch) :
        /\ Len(records) + Len(batch) <= MaxRecords
        /\ LET r == SaveCostRecordsResult(records, batch, fail)
           IN  /\ records' = r.rows
               /\ nextId' = nextId + (Len(r.rows) - Len(records))
               /\ ret' = [err |-> r.err, before |-> records]
        /\ op' = "SaveCostRecords"
        /\ arg' = [batch |-> batch, fail |-> fail]
        /\ calls' = <<>>
        /\ UNCHANGED <<tx, reader, alerts, nextAlertId, config>>

\* Outcomes of db.GetMonthlyCosts(6) are a failed read or one of the orders
\* the query may return.
GetTrendAnalysis ==
    \E dbErr \in BOOLEAN : \E monthlyCosts \in GetMonthlyCosts(records, 6) :
        /\ op' = "GetTrendAnalysis"
        /\ arg' = [dbErr |-> dbErr, monthly |-> monthlyCosts]
        /\ ret' = IF dbErr THEN Failed ELSE Ok(TrendAnalysis(monthlyCosts))
        /\ calls' = <<"db.GetMonthlyCosts">>
        /\ UNCHANGED <<tx, reader, records, nextId, alerts, nextAlertId, config>>

CalculateProjection ==
    \E monthlyCosts \in GetMonthlyCosts(records, 6) :
        /\ op' = "calculateProjection"
        /\ arg' = [dbErr |-> FALSE, monthly |-> monthlyCosts]
        /\ ret' = Ok(calculateProjection(monthlyCosts))
        /\ calls' = <<>>
        /\ UNCHANGED <<tx, reader, records, nextId, alerts, nextAlertId, config>>

GetLocalForecast ==
    \E dbErr \in BOOLEAN : \E monthlyCosts \in GetMonthlyCosts(records, 6) :
        /\ op' = "GetLocalForecast"
        /\ arg' = [dbErr |-> dbErr, monthly |-> monthlyCosts]
        /\ ret' = IF dbErr THEN Failed ELSE Ok(LocalForecast(monthlyCosts))
        /\ calls' = <<"db.GetMonthlyCosts">>
        /\ UNCHANGED <<tx, reader, records, nextId, alerts, nextAlertId, config>>

\* Totals the remote provider's forecast may report.
RemoteVals == { Zero, Int2R(250) }

GetForecast ==
    \E dbErr \in BOOLEAN : \E monthlyCosts \in GetMonthlyCosts(records, 6) :
    \E remoteErr \in BOOLEAN : \E total \in RemoteVals :
        LET local == IF dbErr THEN Failed ELSE Ok(LocalForecast(monthlyCosts))
            remote == IF remoteErr THEN Failed ELSE Ok(total)
            r == GetForecastResult(local, remote)
        IN  /\ op' = "GetForecast"
            /\ arg' = [local |-> local, remote |-> remote, monthly |-> monthlyCosts]
            /\ ret' = r.ret
            /\ calls' = r.calls
            /\ UNCHANGED <<tx, reader, records, nextId, alerts, nextAlertId, config>>

(***************************************************************************)
(* The engine over a store that holds one record for each of the last k   *)
(* months, k <= MaxMonths.                                                 *)
(***************************************************************************)
\* Monthly totals: the two most recent months take every value of CostVals
\* (changes of exactly +5% and -5%, more, less, and a previous month of 0),
\* older months a value of OlderVals.
CostVals == { Zero, Int2R(95), Int2R(100), Int2R(105) }

OlderVals == { Zero, Int2R(100), Int2R(105) }

MonthTotals(k) ==
    { costs \in [1..k -> CostVals] : \A i \in 3..k : costs[i] \in OlderVals }

StoreOfMonths(costs) ==
    [i \in 1..Len(costs) |->
        CostRecord(i, "rg1", "vm", costs[i], Usd, Date(Now.m - (i - 1), 20))]

InitEngine ==
    /\ \E k \in 0..MaxMonths : \E costs \in MonthTotals(k) :
        /\ records = StoreOfMonths(costs)
        /\ nextId = k + 1
    /\ alerts = <<>>
    /\ nextAlertId = 1
    /\ config = {}
    /\ op = "init"
    /\ arg = <<>>
    /\ ret = NoRet
    /\ calls = <<>>
    /\ tx = NoTx
    /\ reader = NoReader

NextEngine ==
    \/ GetTrendAnalysis
    \/ CalculateProjection
    \/ GetLocalForecast
    \/ GetForecast

SpecEngine == InitEngine /\ [][NextEngine]_vars

(***************************************************************************)
(* The engine over a store that holds one record, dated the 20th, for     *)
(* each of the last k months, k <= MaxHistoryMonths: on the 15th the      *)
(* seventh of these months still lies in the lookback of 6 months.        *)
(* Histories of one or two months take finer totals.                      *)
(***************************************************************************)
HistoryVals == { Int2R(100), Int2R(105) }

\* Totals of a history of one or two months: against 100.00, a change of
\* 5%, of 5.004%, of -5% and of -5.004%.
ChangeVals ==
    HistoryVals \cup { Rat(105004, 1000), Int2R(95), Rat(94996, 1000) }

HistoryTotals(k) == [1..k -> IF k <= 2 THEN ChangeVals ELSE HistoryVals]

InitHistory ==
    /\ \E k \in 0..MaxHistoryMonths : \E costs \in HistoryTotals(k) :
        /\ records = StoreOfMonths(costs)
        /\ nextId = k + 1
    /\ alerts = <<>>
    /\ nextAlertId = 1
    /\ config = {}
    /\ op = "init"
    /\ arg = <<>>
    /\ ret = NoRet
    /\ calls = <<>>
    /\ tx = NoTx
    /\ reader = NoReader

NextHistory ==
    \/ GetTrendAnalysis
    \/ GetLocalForecast

SpecHistory == InitHistory /\ [][NextHistory]_vars

(***************************************************************************)
(* GetAggregatedCosts and GetCostSummary.                                  *)
(***************************************************************************)
\* An absent StartDate or EndDate of a CostFilter (the empty string).
NoDate == Date(0, 0)

CostFilter(startDate, endDate) == [StartDate |-> startDate, EndDate |-> endDate]

\* The WHERE clause built from the filter; dates compare as text.
MatchesFilterEndExclusive(r, filter) ==
    /\ filter.StartDate # NoDate => DateGE(r.date, filter.StartDate)
    /\ filter.EndDate # NoDate => ~DateGE(r.date, filter.EndDate)

MatchesFilter(r, filter) ==
    /\ filter.StartDate # NoDate => DateGE(r.date, filter.StartDate)
    /\ filter.EndDate # NoDate => DateGE(filter.EndDate, r.date)

GroupKey(r, groupBy) == IF groupBy = "ResourceGroup" THEN r.rg ELSE r.svc

RECURSIVE SumKeyFrom(_, _, _, _, _)
SumKeyFrom(rows, i, filter, groupBy, key) ==
    IF i > Len(rows) THEN Zero
    ELSE IF MatchesFilter(rows[i], filter) /\ GroupKey(rows[i], groupBy) = key
         THEN RAdd(rows[i].cost, SumKeyFrom(rows, i + 1, filter, groupBy, key))
         ELSE SumKeyFrom(rows, i + 1, filter, groupBy, key)

\* SELECT <groupBy>, SUM(cost) ... GROUP BY <groupBy>, as a map.
GetAggregatedCostsSkipsEmptyKey(rows, filter, groupBy) ==
    LET keys == { GroupKey(rows[i], groupBy) :
                    i \in { j \in 1..Len(rows) : MatchesFilter(rows[j], filter) } }
    IN  [k \in keys \ {""} |-> SumKeyFrom(rows, 1, filter, groupBy, k)]

GetAggregatedCosts(rows, filter, groupBy) ==
    LET keys == { GroupKey(rows[i], groupBy) :
                    i \in { j \in 1..Len(rows) : MatchesFilter(rows[j], filter) } }
    IN  [k \in keys |-> SumKeyFrom(rows, 1, filter, groupBy, k)]

\* totalCost += c over the values of a map.
RECURSIVE SumMap(_, _)
SumMap(m, keys) ==
    IF keys = {} THEN Zero
    ELSE LET k == CHOOSE x \in keys : TRUE
         IN  RAdd(m[k], SumMap(m, keys \ {k}))

\* GetCostSummary after successful reads.
CostSummaryUnfiltered(rows, filter) ==
    LET byService == GetAggregatedCosts(rows, filter, "ServiceName")
        byResourceGroup == GetAggregatedCosts(rows, filter, "ResourceGroup")
        all == GetAggregatedCosts(rows, CostFilter(NoDate, NoDate), "ServiceName")
    IN  [TotalCost |-> SumMap(all, DOMAIN all),
         Currency |-> Usd,
         ByService |-> byService,
         ByResourceGroup |-> byResourceGroup]

CostSummary(rows, filter) ==
    LET byService == GetAggregatedCosts(rows, filter, "ServiceName")
        byResourceGroup == GetAggregatedCosts(rows, filter, "ResourceGroup")
    IN  [TotalCost |-> SumMap(byService, DOMAIN byService),
         Currency |-> Usd,
         ByService |-> byService,
         ByResourceGroup |-> byResourceGroup]

\* GetCurrentMonthDateRange: the first day of this month and of the next.
CurrentMonthDateRange == CostFilter(Date(Now.m, 1), Date(Now.m + 1, 1))

(***************************************************************************)
(* Table alerts and the two alert checks.                                  *)
(***************************************************************************)
\* Alert names in the order of ORDER BY name.
AlertNames == <<"budget-20", "budget-5">>

NameRank(name) == CHOOSE i \in DOMAIN AlertNames : AlertNames[i] = name

Thresholds == { Int2R(5), Int2R(20) }

AlertInputs ==
    { [Name |-> AlertNames[i], Threshold |-> t, Enabled |-> e] :
        i \in DOMAIN AlertNames, t \in Thresholds, e \in BOOLEAN }

\* SELECT ... FROM alerts ORDER BY name: the order of two alerts of the same
\* name is open.
RECURSIVE OrderByName(_)
OrderByName(rows) ==
    IF rows = {} THEN {<<>>}
    ELSE LET m == CHOOSE k \in { NameRank(a.Name) : a \in rows } :
                      \A a \in rows : NameRank(a.Name) >= k
             first == { a \in rows : NameRank(a.Name) = m }
         IN  UNION { { p \o q : q \in OrderByName(rows \ first) } :
                     p \in Perms(first) }

GetAlerts(table) == OrderByName({ table[i] : i \in DOMAIN table })

\* The loop of handleAlertsCheck: the names of the triggered alerts.
RECURSIVE TriggeredIgnoringEnabled(_, _, _)
TriggeredIgnoringEnabled(as, i, total) ==
    IF i > Len(as) THEN <<>>
    ELSE IF RGe(total, as[i].Threshold)
         THEN <<as[i].Name>> \o TriggeredIgnoringEnabled(as, i + 1, total)
         ELSE TriggeredIgnoringEnabled(as, i + 1, total)

RECURSIVE TriggeredNames(_, _, _)
TriggeredNames(as, i, total) ==
    IF i > Len(as) THEN <<>>
    ELSE IF as[i].Enabled /\ RGe(total, as[i].Threshold)
         THEN <<as[i].Name>> \o TriggeredNames(as, i + 1, total)
         ELSE TriggeredNames(as, i + 1, total)

\* The loop of `alert check`: one printed line for each enabled alert.
RECURSIVE AlertStatusLines(_, _, _)
AlertStatusLines(as, i, total) ==
    IF i > Len(as) THEN <<>>
    ELSE IF ~as[i].Enabled THEN AlertStatusLines(as, i + 1, total)
    ELSE <<[Name |-> as[i].Name,
            Threshold |-> as[i].Threshold,
            Percent |-> RMul(RDiv(total, as[i].Threshold), Int2R(100)),
            Status |-> IF RGe(total, as[i].Threshold) THEN "TRIGGERED" ELSE "OK"]>>
         \o AlertStatusLines(as, i + 1, total)

SaveAlert ==
    \E a \in AlertInputs :
        /\ Len(alerts) < MaxAlerts
        /\ nextAlertId <= MaxAlertSaves
        /\ alerts' = Append(alerts, [ID |-> nextAlertId, Name |-> a.Name,
                                     Threshold |-> a.Threshold,
                                     SubscriptionID |-> "", Enabled |-> a.Enabled])
        /\ nextAlertId' = nextAlertId + 1
        /\ op' = "SaveAlert"
        /\ arg' = [alert |-> a]
        /\ ret' = [err |-> FALSE]
        /\ calls' = <<>>
        /\ UNCHANGED <<tx, reader, records, nextId, config>>

DeleteAlert ==
    \E i \in DOMAIN AlertNames :
        /\ alerts' = SelectSeq(alerts, LAMBDA a : a.Name # AlertNames[i])
        /\ op' = "DeleteAlert"
        /\ arg' = [name |-> AlertNames[i]]
        /\ ret' = [err |-> FALSE]
        /\ calls' = <<>>
        /\ UNCHANGED <<tx, reader, records, nextId, nextAlertId, config>>

\* GET /api/v1/alerts/check.  dbFail names the read that fails.
handleAlertsCheck ==
    \E dbFail \in {"none", "summary", "alerts"} : \E as \in GetAlerts(alerts) :
        LET summary == CostSummary(records, CostFilter(NoDate, NoDate))
        IN  /\ op' = "handleAlertsCheck"
            /\ arg' = [dbFail |-> dbFail, alerts |-> as, total |-> summary.TotalCost]
            /\ ret' = IF dbFail # "none" THEN Failed
                      ELSE Ok([current_cost |-> summary.TotalCost,
                               alerts |-> as,
                               triggered |-> TriggeredNames(as, 1, summary.TotalCost)])
            /\ calls' = IF dbFail = "summary" THEN <<"GetCostSummary">>
                        ELSE <<"GetCostSummary", "db.GetAlerts">>
            /\ UNCHANGED <<tx, reader, records, nextId, alerts, nextAlertId, config>>

\* `cost alert check` of the CLI.
alertCheck ==
    \E dbFail \in {"none", "summary", "alerts"} : \E as \in GetAlerts(alerts) :
        LET summary == CostSummary(records, CurrentMonthDateRange)
            lines == IF Len(as) = 0 THEN <<>>
                     ELSE AlertStatusLines(as, 1, summary.TotalCost)
        IN  /\ op' = "alertCheck"
            /\ arg' = [dbFail |-> dbFail, alerts |-> as, total |-> summary.TotalCost]
            /\ ret' = IF dbFail # "none" THEN Failed
                      ELSE Ok([lines |-> lines,
                               triggered |-> \E i \in DOMAIN lines :
                                                lines[i].Status = "TRIGGERED"])
            /\ calls' = IF dbFail = "summary" THEN <<"GetCostSummary">>
                        ELSE <<"GetCostSummary", "db.GetAlerts">>
            /\ UNCHANGED <<tx, reader, records, nextId, alerts, nextAlertId, config>>

\* Stores the alert checks run against: empty, 7.32 this month, 7.32 this
\* month and 12.68 last month, 20.00 this month.
AlertStores ==
    { [i \in 1..Len(b) |-> CostRecord(i, b[i].rg, b[i].svc, b[i].cost, b[i].cur, b[i].date)] :
        b \in { <<>>,
                <<Row("rg1", "vm", Rat(732, 100), Usd, Date(Now.m, 10))>>,
                <<Row("rg1", "vm", Rat(732, 100), Usd, Date(Now.m, 10)),
                  Row("", "blob", Rat(1268, 100), Usd, Date(Now.m - 1, 10))>>,
                <<Row("rg1", "vm", Rat(732, 100), Usd, Date(Now.m, 10)),
                  Row("rg2", "vm", Rat(1268, 100), "EUR", Date(Now.m, 20))>> } }

InitAlerts ==
    /\ records \in AlertStores
    /\ nextId = Len(records) + 1
    /\ alerts = <<>>
    /\ nextAlertId = 1
    /\ config = {}
    /\ op = "init"
    /\ arg = <<>>
    /\ ret = NoRet
    /\ calls = <<>>
    /\ tx = NoTx
    /\ reader = NoReader

NextAlerts ==
    \/ SaveAlert
    \/ DeleteAlert
    \/ handleAlertsCheck
    \/ alertCheck

SpecAlerts == InitAlerts /\ [][NextAlerts]_vars

(***************************************************************************)
(* The store operations on table alerts.                                   *)
(***************************************************************************)
\* db.GetAlerts.
ListAlerts ==
    \E dbErr \in BOOLEAN : \E as \in GetAlerts(alerts) :
        /\ op' = "GetAlerts"
        /\ arg' = [dbErr |-> dbErr]
        /\ ret' = IF dbErr THEN Failed ELSE Ok(as)
        /\ calls' = <<>>
        /\ UNCHANGED <<tx, reader, records, nextId, alerts, nextAlertId, config>>

\* An *Alert that is nil.
NilAlert == [isNil |-> TRUE]

\* QueryRow(... WHERE name = ?).Scan: sql.ErrNoRows gives (nil, nil); with
\* rows, the first one the query yields, which SQL leaves open.
GetAlertByNameMissingFails(table, name) ==
    IF \A i \in DOMAIN table : table[i].Name # name
    THEN { Failed }
    ELSE { Ok([isNil |-> FALSE, alert |-> table[i]]) :
             i \in { j \in DOMAIN table : table[j].Name = name } }

GetAlertByNameResults(table, name) ==
    IF \A i \in DOMAIN table : table[i].Name # name
    THEN { Ok(NilAlert) }
    ELSE { Ok([isNil |-> FALSE, alert |-> table[i]]) :
             i \in { j \in DOMAIN table : table[j].Name = name } }

GetAlertByName ==
    \E i \in DOMAIN AlertNames : \E dbErr \in BOOLEAN :
    \E r \in GetAlertByNameResults(alerts, AlertNames[i]) :
        /\ op' = "GetAlertByName"
        /\ arg' = [name |-> AlertNames[i], dbErr |-> dbErr]
        /\ ret' = IF dbErr THEN Failed ELSE r
        /\ calls' = <<>>
        /\ UNCHANGED <<tx, reader, records, nextId, alerts, nextAlertId, config>>

NextAlertStore ==
    \/ SaveAlert
    \/ DeleteAlert
    \/ ListAlerts
    \/ GetAlertByName

SpecAlertStore == Init /\ [][NextAlertStore]_vars

(***************************************************************************)
(* The commands and the HTTP handlers that create and delete alerts, and   *)
(* the config commands.                                                    *)
(***************************************************************************)
\* A command-line argument read with fmt.Sscanf(arg, "%f", &x): x is the
\* number the text starts with, and stays 0 when the text starts with none.
Text(parses, value) == [parses |-> parses, value |-> value]

Sscanf(text) == IF text.parses THEN text.value ELSE Zero

ThresholdArgs == { Text(TRUE, Int2R(5)), Text(TRUE, Int2R(-1)), Text(FALSE, Zero) }

\* The row db.SaveAlert inserts for an alert the CLI or the API builds: the
\* subscription id is left empty.
InsertAlert(table, id, name, threshold, enabled) ==
    Append(table, [ID |-> id, Name |-> name, Threshold |-> threshold,
                   SubscriptionID |-> "", Enabled |-> enabled])

\* `cost alert add [name] [threshold]`.
alertAdd ==
    \E i \in DOMAIN AlertNames : \E text \in ThresholdArgs : \E dbErr \in BOOLEAN :
        /\ Len(alerts) < MaxAlerts
        /\ nextAlertId <= MaxAlertSaves
        /\ alerts' = IF dbErr THEN alerts
                     ELSE InsertAlert(alerts, nextAlertId, AlertNames[i],
                                      Sscanf(text), TRUE)
        /\ nextAlertId' = IF dbErr THEN nextAlertId ELSE nextAlertId + 1
        /\ op' = "alertAdd"
        /\ arg' = [name |-> AlertNames[i], threshold |-> text]
        /\ ret' = [err |-> dbErr]
        /\ calls' = <<"db.SaveAlert">>
        /\ UNCHANGED <<tx, reader, records, nextId, config>>

\* The number in each name of AlertNames.
BudgetAmounts == <<20, 5>>

BudgetArgs == { Text(TRUE, Int2R(5)), Text(TRUE, Int2R(20)),
                Text(TRUE, Int2R(101)), Text(FALSE, Zero) }

\* fmt.Sprintf("budget-%.0f", amount)
BudgetName(amount) ==
    AlertNames[CHOOSE i \in DOMAIN BudgetAmounts : Int2R(BudgetAmounts[i]) = Round(amount)]

\* `budget add [amount]`: an amount outside 1..100 is rejected.
budgetAdd ==
    \E text \in BudgetArgs : \E dbErr \in BOOLEAN :
        LET amount == Sscanf(text)
            rejected == RLt(amount, Int2R(1)) \/ RGt(amount, Int2R(100))
            stored == ~rejected /\ ~dbErr
        IN  /\ Len(alerts) < MaxAlerts
            /\ nextAlertId <= MaxAlertSaves
            /\ rejected => ~dbErr
            /\ alerts' = IF stored
                         THEN InsertAlert(alerts, nextAlertId, BudgetName(amount),
                                          amount, TRUE)
                         ELSE alerts
            /\ nextAlertId' = IF stored THEN nextAlertId + 1 ELSE nextAlertId
            /\ op' = "budgetAdd"
            /\ arg' = [amount |-> text]
            /\ ret' = [err |-> rejected \/ dbErr]
            /\ calls' = IF rejected THEN <<>> ELSE <<"db.SaveAlert">>
            /\ UNCHANGED <<tx, reader, records, nextId, config>>

\* The threshold of a POST body: a number, or 0 when the field is missing.
PostThresholds == { Int2R(20), Zero, Int2R(-1) }

\* POST /api/v1/alerts.  status is the HTTP status of the response.
handleAlertsPost ==
    \E i \in DOMAIN AlertNames : \E threshold \in PostThresholds :
    \E fail \in {"none", "decode", "db"} :
        /\ Len(alerts) < MaxAlerts
        /\ nextAlertId <= MaxAlertSaves
        /\ alerts' = IF fail = "none"
                     THEN InsertAlert(alerts, nextAlertId, AlertNames[i], threshold, TRUE)
                     ELSE alerts
        /\ nextAlertId' = IF fail = "none" THEN nextAlertId + 1 ELSE nextAlertId
        /\ op' = "handleAlertsPost"
        /\ arg' = [name |-> AlertNames[i], threshold |-> threshold, fail |-> fail]
        /\ ret' = [err |-> fail # "none",
                   status |-> IF fail = "decode" THEN 400
                              ELSE IF fail = "db" THEN 500 ELSE 200]
        /\ calls' = IF fail = "decode" THEN <<>> ELSE <<"db.SaveAlert">>
        /\ UNCHANGED <<tx, reader, records, nextId, config>>

\* DELETE FROM alerts WHERE name = ?
WithoutName(table, name) == SelectSeq(table, LAMBDA a : a.Name # name)

\* `cost alert delete [name]` and `budget remove [name]`.
alertDelete ==
    \E i \in DOMAIN AlertNames : \E dbErr \in BOOLEAN :
        /\ alerts' = IF dbErr THEN alerts ELSE WithoutName(alerts, AlertNames[i])
        /\ op' = "alertDelete"
        /\ arg' = [name |-> AlertNames[i]]
        /\ ret' = [err |-> dbErr]
        /\ calls' = <<"db.DeleteAlert">>
        /\ UNCHANGED <<tx, reader, records, nextId, nextAlertId, config>>

\* DELETE /api/v1/alerts?name=...: an empty name is a bad request.
handleAlertsDelete ==
    \E name \in { AlertNames[i] : i \in DOMAIN AlertNames } \cup {""} :
    \E dbErr \in BOOLEAN :
        /\ name = "" => ~dbErr
        /\ alerts' = IF dbErr \/ name = "" THEN alerts ELSE WithoutName(alerts, name)
        /\ op' = "handleAlertsDelete"
        /\ arg' = [name |-> name]
        /\ ret' = [err |-> dbErr \/ name = "",
                   status |-> IF name = "" THEN 400 ELSE IF dbErr THEN 500 ELSE 200]
        /\ calls' = IF name = "" THEN <<>> ELSE <<"db.DeleteAlert">>
        /\ UNCHANGED <<tx, reader, records, nextId, nextAlertId, config>>

\* Table config: `config set` and `config get`.
ConfigKeys == {"azure.subscription_id"}

ConfigValues == {"sub-1", "sub-2"}

\* INSERT ... ON CONFLICT(key) DO UPDATE SET value = excluded.value
Upsert(table, key, value) ==
    { c \in table : c.key # key } \cup { [key |-> key, value |-> value] }

SetConfig ==
    \E key \in ConfigKeys : \E value \in ConfigValues : \E dbErr \in BOOLEAN :
        /\ config' = IF dbErr THEN config ELSE Upsert(config, key, value)
        /\ op' = "SetConfig"
        /\ arg' = [key |-> key, value |-> value]
        /\ ret' = [err |-> dbErr]
        /\ calls' = <<>>
        /\ UNCHANGED <<tx, reader, records, nextId, alerts, nextAlertId>>

\* SELECT value FROM config WHERE key = ?; no row gives "" and no error.
ConfigValue(table, key) ==
    IF \E c \in table : c.key = key
    THEN (CHOOSE c \in table : c.key = key).value
    ELSE ""

GetConfig ==
    \E key \in ConfigKeys : \E dbErr \in BOOLEAN :
        /\ op' = "GetConfig"
        /\ arg' = [key |-> key]
        /\ ret' = IF dbErr THEN Failed ELSE Ok(ConfigValue(config, key))
        /\ calls' = <<>>
        /\ UNCHANGED <<tx, reader, records, nextId, alerts, nextAlertId, config>>

\* `dev build` and `dev review`: the LLM provider and the request.
\* llm.NewProvider: a provider for each known type, an error otherwise.
NewProvider(providerType) ==
    IF providerType \in {"ollama", "anthropic", "cli"} THEN Ok(providerType)
    ELSE Failed

\* The provider the two commands work with: "ollama", "anthropic" when
\* NewProvider("ollama") returns an error, none when both do.
SelectProvider ==
    IF ~NewProvider("ollama").err THEN NewProvider("ollama")
    ELSE NewProvider("anthropic")

\* provider.Chat, given which providers can serve the request.
Chat(provider, serving) ==
    IF provider \in serving THEN Ok([provider |-> provider]) ELSE Failed

\* CodeGenerator.Generate: the chat, then the file when a path is given.
Generate(provider, serving, path, writeErr) ==
    LET code == Chat(provider, serving)
    IN  IF code.err THEN Failed
        ELSE IF path # "" /\ writeErr THEN Failed
        ELSE code

\* CodeReviewer.Review: the file is read, then the chat.
Review(provider, serving, readErr) ==
    IF readErr THEN [ret |-> Failed, calls |-> <<>>]
    ELSE [ret |-> Chat(provider, serving), calls |-> <<provider>>]

\* The sets of providers that can serve a request.
Serving == SUBSET {"ollama", "anthropic"}

devBuild ==
    \E serving \in Serving : \E path \in {"", "out.py"} : \E writeErr \in BOOLEAN :
        /\ op' = "devBuild"
        /\ arg' = [serving |-> serving, path |-> path, fileErr |-> writeErr]
        /\ ret' = IF SelectProvider.err THEN Failed
                  ELSE Generate(SelectProvider.val, serving, path, writeErr)
        /\ calls' = IF SelectProvider.err THEN <<>> ELSE <<SelectProvider.val>>
        /\ UNCHANGED <<tx, reader, records, nextId, alerts, nextAlertId, config>>

devReview ==
    \E serving \in Serving : \E readErr \in BOOLEAN :
        LET r == IF SelectProvider.err THEN [ret |-> Failed, calls |-> <<>>]
                 ELSE Review(SelectProvider.val, serving, readErr)
        IN  /\ op' = "devReview"
            /\ arg' = [serving |-> serving, path |-> "main.go", fileErr |-> readErr]
            /\ ret' = r.ret
            /\ calls' = r.calls
            /\ UNCHANGED <<tx, reader, records, nextId, alerts, nextAlertId, config>>

NextCrud ==
    \/ devBuild
    \/ devReview
    \/ alertAdd
    \/ budgetAdd
    \/ handleAlertsPost
    \/ alertDelete
    \/ handleAlertsDelete
    \/ ListAlerts
    \/ SetConfig
    \/ GetConfig

SpecCrud == Init /\ [][NextCrud]_vars

(***************************************************************************)
(* Free-tier classifier.                                                   *)
(***************************************************************************)
\* A *ServiceLimit; isNil is the nil pointer.
ServiceLimit(limit, warningThreshold) ==
    [isNil |-> FALSE, Limit |-> limit, Unit |-> "hours",
     WarningThreshold |-> warningThreshold]

NilLimit == [isNil |-> TRUE, Limit |-> Zero, Unit |-> "", WarningThreshold |-> Zero]

StatusOfWarningFirst(percentUsed, warningThreshold) ==
    IF RGt(warningThreshold, Zero) /\ RGe(percentUsed, warningThreshold) THEN "warning"
    ELSE IF RGe(percentUsed, Int2R(1)) THEN "overage"
    ELSE "free"

StatusOf(percentUsed, warningThreshold) ==
    IF RGe(percentUsed, Int2R(1)) THEN "overage"
    ELSE IF RGt(warningThreshold, Zero) /\ RGe(percentUsed, warningThreshold) THEN "warning"
    ELSE "free"

CheckServiceUsageResult(usage, limit) ==
    IF limit.isNil
    THEN [ServiceName |-> "", Used |-> Zero, Limit |-> Zero, Unit |-> "",
          Status |-> "unknown", PercentUsed |-> Zero]
    ELSE LET percentUsed == RDiv(usage, limit.Limit)
         IN  [ServiceName |-> "", Used |-> usage, Limit |-> limit.Limit,
              Unit |-> limit.Unit,
              Status |-> StatusOf(percentUsed, limit.WarningThreshold),
              PercentUsed |-> RMul(percentUsed, Int2R(100))]

Usages == { Zero, Int2R(-1), Int2R(4), Int2R(5), Rat(5, 2), Int2R(375),
            Int2R(600), Int2R(750), Int2R(800) }

Limits ==
    { NilLimit } \cup
    { ServiceLimit(l, w) : l \in { Zero, Int2R(5), Int2R(750) },
                           w \in { Zero, Rat(1, 2), Rat(4, 5), Int2R(1) } }

CheckServiceUsage ==
    \E usage \in Usages : \E limit \in Limits :
        /\ op' = "CheckServiceUsage"
        /\ arg' = [usage |-> usage, limit |-> limit]
        /\ ret' = Ok(CheckServiceUsageResult(usage, limit))
        /\ calls' = <<>>
        /\ UNCHANGED <<tx, reader, records, nextId, alerts, nextAlertId, config>>

NextUsage ==
    \/ CheckServiceUsage

SpecUsage == Init /\ [][NextUsage]_vars

(***************************************************************************)
(* The cost service and the store over one database that starts empty.    *)
(***************************************************************************)
\* Date ranges a caller passes: none, the current month, a start only, an
\* end only; the open bounds fall on the dates of rows of Rows.
Filters ==
    { CostFilter(NoDate, NoDate),
      CurrentMonthDateRange,
      CostFilter(Date(Now.m - 1, 10), NoDate),
      CostFilter(NoDate, Date(Now.m, 10)) }

\* GetCostSummary given the read that fails ("none", "service",
\* "resourceGroup"): the result and the store calls made, in order.
GetCostSummaryWithoutGroups(rows, filter, dbFail) ==
    IF dbFail = "service"
    THEN [ret |-> Failed, calls |-> <<"db.GetAggregatedCosts">>]
    ELSE [ret |-> Ok(CostSummary(rows, filter)),
          calls |-> <<"db.GetAggregatedCosts", "db.GetAggregatedCosts">>]

GetCostSummaryResult(rows, filter, dbFail) ==
    IF dbFail = "service"
    THEN [ret |-> Failed, calls |-> <<"db.GetAggregatedCosts">>]
    ELSE [ret |-> IF dbFail = "resourceGroup" THEN Failed
                  ELSE Ok(CostSummary(rows, filter)),
          calls |-> <<"db.GetAggregatedCosts", "db.GetAggregatedCosts">>]

SummaryFailures == {"none", "service", "resourceGroup"}

GetCostSummary ==
    \E filter \in Filters : \E dbFail \in SummaryFailures :
        LET r == GetCostSummaryResult(records, filter, dbFail)
        IN  /\ op' = "GetCostSummary"
            /\ arg' = [filter |-> filter, dbFail |-> dbFail]
            /\ ret' = r.ret
            /\ calls' = r.calls
            /\ UNCHANGED <<tx, reader, records, nextId, alerts, nextAlertId, config>>

\* db.SaveCostRecord: one INSERT outside a transaction.
SaveCostRecord ==
    \E r \in Rows : \E dbErr \in BOOLEAN :
        /\ Len(records) < MaxRecords
        /\ records' = IF dbErr THEN records ELSE InsertRow(records, nextId, r)
        /\ nextId' = IF dbErr THEN nextId ELSE nextId + 1
        /\ op' = "SaveCostRecord"
        /\ arg' = [record |-> r, dbErr |-> dbErr]
        /\ ret' = [err |-> dbErr, before |-> records]
        /\ calls' = <<>>
        /\ UNCHANGED <<tx, reader, alerts, nextAlertId, config>>

\* The records FetchAndStoreCosts builds from the provider's result.
StorageRecords(result) ==
    [i \in 1..Len(result) |->
        Row(result[i].rg, result[i].svc, result[i].cost, result[i].cur, result[i].date)]

\* FetchAndStoreCosts as a function of the table, the provider's outcome and
\* the failing step of SaveCostRecords: the table after the call, the error
\* and the collaborator calls made, in order.
FetchAndStoreCostsSkipsStored(committed, provider, fail) ==
    IF provider.err
    THEN [rows |-> committed, err |-> TRUE,
          calls |-> <<"azureCost.QueryCostsByService">>]
    ELSE LET new == SelectSeq(StorageRecords(provider.val),
                              LAMBDA x : \A i \in DOMAIN committed :
                                  Row(committed[i].rg, committed[i].svc,
                                      committed[i].cost, committed[i].cur,
                                      committed[i].date) # x)
             r == SaveCostRecordsResult(committed, new, fail)
         IN  [rows |-> r.rows, err |-> r.err,
              calls |-> <<"azureCost.QueryCostsByService", "db.SaveCostRecords">>]

FetchAndStoreCostsRetries(committed, provider, fail) ==
    IF provider.err
    THEN [rows |-> committed, err |-> TRUE,
          calls |-> <<"azureCost.QueryCostsByService",
                      "azureCost.QueryCostsByService">>]
    ELSE LET r == SaveCostRecordsResult(committed, StorageRecords(provider.val), fail)
         IN  [rows |-> r.rows, err |-> r.err,
              calls |-> <<"azureCost.QueryCostsByService", "db.SaveCostRecords">>]

FetchAndStoreCostsResult(committed, provider, fail) ==
    IF provider.err
    THEN [rows |-> committed, err |-> TRUE,
          calls |-> <<"azureCost.QueryCostsByService">>]
    ELSE LET r == SaveCostRecordsResult(committed, StorageRecords(provider.val), fail)
         IN  [rows |-> r.rows, err |-> r.err,
              calls |-> <<"azureCost.QueryCostsByService", "db.SaveCostRecords">>]

NoFailure == [step |-> "none", k |-> 0]

\* Outcomes of db.SaveCostRecords inside the service: it succeeds, or it fails
\* after every insert went through.
SaveOutcomes == { NoFailure, [step |-> "commit", k |-> 0] }

\* The rows a provider's result can hold.
Responses == UNION { [1..k -> Rows] : k \in 0..MaxResponse }

\* What the provider answers to QueryCostsByService: an error, or rows.
ProviderOutcomes(providerErr, response) ==
    IF providerErr THEN Failed ELSE Ok(response)

\* `cost fetch`.  The fields before, repeat and first of the result are
\* history: the table before the call, whether the call just before this one
\* was a successful FetchAndStoreCosts with the same provider response, and
\* the table before that call.
FetchAndStoreCosts ==
    \E providerErr \in BOOLEAN : \E response \in Responses :
    \E fail \in SaveOutcomes :
        /\ Len(records) + Len(response) <= MaxRecords
        /\ providerErr => (response = <<>> /\ fail = NoFailure)
        /\ LET r == FetchAndStoreCostsResult(
                        records, ProviderOutcomes(providerErr, response), fail)
               repeat == /\ op = "FetchAndStoreCosts"
                         /\ ~ret.err
                         /\ ~providerErr
                         /\ arg.response = response
           IN  /\ records' = r.rows
               /\ nextId' = nextId + (Len(r.rows) - Len(records))
               /\ ret' = [err |-> r.err, before |-> records, beforeId |-> nextId,
                          repeat |-> repeat,
                          first |-> IF repeat THEN ret.before ELSE records]
               /\ calls' = r.calls
        /\ op' = "FetchAndStoreCosts"
        /\ arg' = [range |-> CurrentMonthDateRange, providerErr |-> providerErr,
                   response |-> response, fail |-> fail]
        /\ UNCHANGED <<tx, reader, alerts, nextAlertId, config>>

\* A Forecast pointer that is nil.
NilForecast == [isNil |-> TRUE]

ForecastOf(f) == [isNil |-> FALSE, NextMonth |-> f.NextMonth, Confidence |-> f.Confidence]

\* GetCurrentCosts after a successful fetch: the summary of the current
\* month over the table the fetch left, with the forecast when GetForecast
\* gave one.
CurrentCostsAfterFetch(rows, dbFail, forecast) ==
    LET summary == GetCostSummaryResult(rows, CurrentMonthDateRange, dbFail)
    IN  IF summary.ret.err
        THEN [ret |-> Failed, calls |-> <<"FetchAndStoreCosts", "GetCostSummary">>]
        ELSE [ret |-> Ok([summary |-> summary.ret.val,
                          Forecast |-> IF forecast.ret.err THEN NilForecast
                                       ELSE ForecastOf(forecast.ret.val)]),
              calls |-> <<"FetchAndStoreCosts", "GetCostSummary", "GetForecast">>]

\* `cost current` and GET /api/v1/azure/costs/current.  The inputs name the
\* outcome of each collaborator call; a call that is not reached has its
\* first outcome.
GetCurrentCosts ==
    \E providerErr \in BOOLEAN : \E response \in Responses :
    \E fail \in SaveOutcomes :
        /\ Len(records) + Len(response) <= MaxRecords
        /\ providerErr => (response = <<>> /\ fail = NoFailure)
        /\ LET fetch == FetchAndStoreCostsResult(
                            records, ProviderOutcomes(providerErr, response), fail)
           IN  \E dbFail \in IF fetch.err THEN {"none"} ELSE SummaryFailures :
               \E forecastFail \in IF fetch.err \/ dbFail # "none" THEN {"none"}
                                    ELSE {"none", "local", "both"} :
               \E monthlyCosts \in GetMonthlyCosts(fetch.rows, 6) :
                    LET local == IF forecastFail # "none" THEN Failed
                                 ELSE Ok(LocalForecast(monthlyCosts))
                        remote == IF forecastFail = "both" THEN Failed
                                  ELSE Ok(Int2R(250))
                        forecast == GetForecastResult(local, remote)
                        r == IF fetch.err
                             THEN [ret |-> Failed, calls |-> <<"FetchAndStoreCosts">>]
                             ELSE CurrentCostsAfterFetch(fetch.rows, dbFail, forecast)
                    IN  /\ records' = fetch.rows
                        /\ nextId' = nextId + (Len(fetch.rows) - Len(records))
                        /\ ret' = r.ret
                        /\ calls' = r.calls
                        /\ arg' = [fetchErr |-> fetch.err, dbFail |-> dbFail,
                                   forecastErr |-> forecast.ret.err,
                                   before |-> records]
        /\ op' = "GetCurrentCosts"
        /\ UNCHANGED <<tx, reader, alerts, nextAlertId, config>>

\* GetLastNMonths(n): from n months before today to today.
GetLastNMonths(n) == CostFilter(MonthsAgo(n), Now)

\* The argument of GetCostHistory: 30 from the CLI, any number from the API.
HistoryDays == {1, 30}

\* GetCostHistory given the read that fails ("none", "service",
\* "resourceGroup", "monthly") and the order the monthly query returns.
GetCostHistoryResult(rows, days, dbFail, monthlyCosts) ==
    LET summary == GetCostSummaryResult(
                       rows, GetLastNMonths(days),
                       IF dbFail = "monthly" THEN "none" ELSE dbFail)
    IN  IF summary.ret.err
        THEN [ret |-> Failed, calls |-> <<"GetCostSummary">>]
        ELSE [ret |-> Ok([summary |-> summary.ret.val,
                          MonthlyBreakdown |->
                              IF dbFail # "monthly" /\ Len(monthlyCosts) > 0
                              THEN monthlyCosts ELSE <<>>]),
              calls |-> <<"GetCostSummary", "db.GetMonthlyCosts">>]

GetCostHistory ==
    \E days \in HistoryDays : \E dbFail \in SummaryFailures \cup {"monthly"} :
    \E monthlyCosts \in GetMonthlyCosts(records, 12) :
        LET r == GetCostHistoryResult(records, days, dbFail, monthlyCosts)
        IN  /\ op' = "GetCostHistory"
            /\ arg' = [days |-> days, dbFail |-> dbFail, monthly |-> monthlyCosts]
            /\ ret' = r.ret
            /\ calls' = r.calls
            /\ UNCHANGED <<tx, reader, records, nextId, alerts, nextAlertId, config>>

\* The period of a report: "Last 12 months" (months is FALSE), or the month
\* of the last entry to the month of the first.
ReportPeriod(monthlyCosts) ==
    IF Len(monthlyCosts) > 0
    THEN [months |-> TRUE, from |-> monthlyCosts[Len(monthlyCosts)].Month,
          to |-> monthlyCosts[1].Month]
    ELSE [months |-> FALSE, from |-> 0, to |-> 0]

\* `for service, cost := range summary.ByService`: Go leaves the iteration
\* order of a map open, so the loop may visit the keys in any order.
RangeOverMap(m) == Perms(DOMAIN m)

\* GenerateReport given the read that fails ("none", "monthly", "service",
\* "resourceGroup", "forecast"), the results of the two monthly queries and
\* the order in which the loop visits the services.
GenerateReportResult(rows, dbFail, monthlyCosts, forecastCosts, services) ==
    IF dbFail = "monthly"
    THEN [ret |-> Failed, calls |-> <<"db.GetMonthlyCosts">>]
    ELSE LET summary == GetCostSummaryResult(
                            rows, CostFilter(NoDate, NoDate),
                            IF dbFail = "forecast" THEN "none" ELSE dbFail)
         IN  IF summary.ret.err
             THEN [ret |-> Failed, calls |-> <<"db.GetMonthlyCosts", "GetCostSummary">>]
             ELSE [ret |-> Ok([Period |-> ReportPeriod(monthlyCosts),
                               TotalCost |-> summary.ret.val.TotalCost,
                               Currency |-> summary.ret.val.Currency,
                               Forecast |-> IF dbFail = "forecast" THEN Zero
                                            ELSE LocalForecast(forecastCosts).NextMonth,
                               MonthlyData |-> monthlyCosts,
                               TopServices |->
                                   [i \in DOMAIN services |->
                                       [Service |-> services[i],
                                        Cost |-> summary.ret.val.ByService[services[i]]]]]),
                   calls |-> <<"db.GetMonthlyCosts", "GetCostSummary",
                               "GetLocalForecast">>]

GenerateReport ==
    \E dbFail \in SummaryFailures \cup {"monthly", "forecast"} :
    \E monthlyCosts \in GetMonthlyCosts(records, 12) :
    \E forecastCosts \in GetMonthlyCosts(records, 6) :
    \E services \in RangeOverMap(
                        CostSummary(records, CostFilter(NoDate, NoDate)).ByService) :
        LET r == GenerateReportResult(records, dbFail, monthlyCosts, forecastCosts,
                                      services)
        IN  /\ op' = "GenerateReport"
            /\ arg' = [dbFail |-> dbFail, monthly |-> monthlyCosts,
                       forecastMonthly |-> forecastCosts]
            /\ ret' = r.ret
            /\ calls' = r.calls
            /\ UNCHANGED <<tx, reader, records, nextId, alerts, nextAlertId, config>>

(***************************************************************************)
(* The store queries over every table of up to MaxRecords of the rows.    *)
(***************************************************************************)
\* db.GetAggregatedCosts.
AggregatedCosts ==
    \E filter \in Filters : \E groupBy \in {"ServiceName", "ResourceGroup", ""} :
    \E dbErr \in BOOLEAN :
        /\ op' = "GetAggregatedCosts"
        /\ arg' = [filter |-> filter, groupBy |-> groupBy, dbErr |-> dbErr]
        /\ ret' = IF dbErr THEN Failed
                  ELSE Ok(GetAggregatedCosts(records, filter, groupBy))
        /\ calls' = <<>>
        /\ UNCHANGED <<tx, reader, records, nextId, alerts, nextAlertId, config>>

\* db.GetMonthlyCosts: 6 and 12 months are what the service asks for.
Lookbacks == {1, 6, 12}

MonthlyCosts ==
    \E months \in Lookbacks : \E dbErr \in BOOLEAN :
    \E monthlyCosts \in GetMonthlyCosts(records, months) :
        /\ op' = "GetMonthlyCosts"
        /\ arg' = [months |-> months, dbErr |-> dbErr]
        /\ ret' = IF dbErr THEN Failed ELSE Ok(monthlyCosts)
        /\ calls' = <<>>
        /\ UNCHANGED <<tx, reader, records, nextId, alerts, nextAlertId, config>>

\* The table after the rows of b were inserted into an empty one.
TableOf(b) ==
    [i \in 1..Len(b) |->
        CostRecord(i, b[i].rg, b[i].svc, b[i].cost, b[i].cur, b[i].date)]

InitQueries ==
    /\ \E k \in 0..MaxRecords : \E b \in [1..k -> Rows] : records = TableOf(b)
    /\ nextId = Len(records) + 1
    /\ alerts = <<>>
    /\ nextAlertId = 1
    /\ config = {}
    /\ op = "init"
    /\ arg = <<>>
    /\ ret = NoRet
    /\ calls = <<>>
    /\ tx = NoTx
    /\ reader = NoReader

NextQueries ==
    \/ AggregatedCosts
    \/ MonthlyCosts

SpecQueries == InitQueries /\ [][NextQueries]_vars

(***************************************************************************)
(* The read operations of the service over a store that holds cost        *)
(* records, alerts and config entries.                                     *)
(***************************************************************************)
ReadStoreAlerts ==
    { <<>>, InsertAlert(<<>>, 1, AlertNames[1], Int2R(20), TRUE) }

ReadStoreConfigs ==
    { {}, Upsert({}, "azure.subscription_id", "sub-1") }

InitReads ==
    /\ \E k \in 0..MaxBatch : \E b \in [1..k -> Rows] : records = TableOf(b)
    /\ nextId = Len(records) + 1
    /\ alerts \in ReadStoreAlerts
    /\ nextAlertId = Len(alerts) + 1
    /\ config \in ReadStoreConfigs
    /\ op = "init"
    /\ arg = <<>>
    /\ ret = NoRet
    /\ calls = <<>>
    /\ tx = NoTx
    /\ reader = NoReader

NextReads ==
    \/ GetCostSummary
    \/ GetCostHistory
    \/ GetTrendAnalysis
    \/ GetLocalForecast
    \/ GetForecast
    \/ GenerateReport

SpecReads == InitReads /\ [][NextReads]_vars

(***************************************************************************)
(* SaveCostRecords statement by statement, with the queries of other      *)
(* requests in between.  The queries run on other connections of the      *)
(* pool (db.conn.Query), the inserts on the transaction's (tx.Prepare).    *)
(***************************************************************************)
\* The rows a query on another connection sees while a transaction is
\* open: SQLite shows it the committed rows only.
VisibleUncommitted(committed, written) == committed \o written

Visible(committed, written) == committed

\* SELECT ... FROM cost_records WHERE ... ORDER BY date DESC: the order of
\* two rows of the same date is open.
RECURSIVE OrderByDateDesc(_)
OrderByDateDesc(rows) ==
    IF rows = {} THEN {<<>>}
    ELSE LET top == { r \in rows : \A q \in rows : DateGE(r.date, q.date) }
         IN  UNION { { p \o q : q \in OrderByDateDesc(rows \ top) } :
                     p \in Perms(top) }

GetCostRecords(rows, filter, serviceName) ==
    OrderByDateDesc({ rows[i] : i \in { j \in DOMAIN rows :
        /\ MatchesFilter(rows[j], filter)
        /\ serviceName # "" => rows[j].svc = serviceName } })

\* The CostSummary built from the results of the two queries.
CostSummaryOf(byService, byResourceGroup) ==
    [TotalCost |-> SumMap(byService, DOMAIN byService),
     Currency |-> Usd,
     ByService |-> byService,
     ByResourceGroup |-> byResourceGroup]

\* Rows of the last two months.
ConcurrentRows == { r \in Rows : r.date.m >= Now.m - 1 }

ConcurrentBatches == UNION { [1..k -> ConcurrentRows] : k \in 0..MaxBatch }

ConcurrentFilters == { CostFilter(NoDate, NoDate), CurrentMonthDateRange }

\* db.conn.Begin() and tx.Prepare().
BeginBatch ==
    /\ ~tx.open
    /\ \E batch \in ConcurrentBatches : \E fail \in {"none", "begin", "prepare"} :
        /\ Len(records) + Len(batch) <= MaxRecords
        /\ tx' = IF fail = "none"
                 THEN [tx EXCEPT !.open = TRUE, !.batch = batch, !.i = 1,
                                 !.written = <<>>]
                 ELSE tx
        /\ op' = "Begin"
        /\ arg' = [batch |-> batch, fail |-> fail]
        /\ ret' = [err |-> fail # "none"]
    /\ calls' = <<>>
    /\ UNCHANGED <<records, nextId, alerts, nextAlertId, config, reader>>

\* One stmt.Exec of the loop; a failure returns through the deferred
\* tx.Rollback().
ExecRecord ==
    /\ tx.open
    /\ tx.i <= Len(tx.batch)
    /\ \E ok \in BOOLEAN :
        /\ tx' = IF ok
                 THEN [tx EXCEPT !.i = @ + 1,
                                 !.written = InsertRow(@, nextId + Len(@),
                                                       tx.batch[tx.i])]
                 ELSE [NoTx EXCEPT !.commits = tx.commits]
        /\ records' = IF ok THEN records ELSE Rollback(records, tx.written)
        /\ op' = "Exec"
        /\ arg' = [i |-> tx.i]
        /\ ret' = [err |-> ~ok]
    /\ calls' = <<>>
    /\ UNCHANGED <<nextId, alerts, nextAlertId, config, reader>>

\* tx.Commit() after the loop.
CommitBatch ==
    /\ tx.open
    /\ tx.i > Len(tx.batch)
    /\ \E ok \in BOOLEAN :
        /\ records' = IF ok THEN Commit(records, tx.written)
                      ELSE Rollback(records, tx.written)
        /\ nextId' = nextId + (Len(records') - Len(records))
        /\ tx' = [NoTx EXCEPT !.commits = tx.commits \cup {Len(records')}]
        /\ op' = "Commit"
        /\ arg' = [batch |-> tx.batch]
        /\ ret' = [err |-> ~ok]
    /\ calls' = <<>>
    /\ UNCHANGED <<alerts, nextAlertId, config, reader>>

\* db.GetCostRecords from another request.
QueryCostRecords ==
    \E filter \in ConcurrentFilters : \E dbErr \in BOOLEAN :
    \E rows \in GetCostRecords(Visible(records, tx.written), filter, "") :
        /\ op' = "GetCostRecords"
        /\ arg' = [filter |-> filter, dbErr |-> dbErr]
        /\ ret' = IF dbErr THEN Failed ELSE Ok(rows)
        /\ calls' = <<>>
        /\ UNCHANGED <<records, nextId, alerts, nextAlertId, config, tx, reader>>

\* db.GetMonthlyCosts from another request.
QueryMonthlyCosts ==
    \E dbErr \in BOOLEAN :
    \E monthlyCosts \in GetMonthlyCosts(Visible(records, tx.written), 6) :
        /\ op' = "GetMonthlyCosts"
        /\ arg' = [months |-> 6, dbErr |-> dbErr]
        /\ ret' = IF dbErr THEN Failed ELSE Ok(monthlyCosts)
        /\ calls' = <<>>
        /\ UNCHANGED <<records, nextId, alerts, nextAlertId, config, tx, reader>>

\* GetCostSummary from another request, up to its first query.
SummaryByService ==
    /\ ~reader.busy
    /\ \E filter \in ConcurrentFilters : \E dbErr \in BOOLEAN :
        /\ reader' = IF dbErr THEN NoReader
                     ELSE [busy |-> TRUE, filter |-> filter,
                           byService |->
                               GetAggregatedCosts(Visible(records, tx.written),
                                                  filter, "ServiceName")]
        /\ op' = IF dbErr THEN "GetCostSummary" ELSE "GetAggregatedCosts"
        /\ arg' = [filter |-> filter,
                   dbFail |-> IF dbErr THEN "service" ELSE "none"]
        /\ ret' = IF dbErr THEN Failed ELSE NoRet
    /\ calls' = <<"db.GetAggregatedCosts">>
    /\ UNCHANGED <<records, nextId, alerts, nextAlertId, config, tx>>

\* The rest of that GetCostSummary: its second query and the result.
SummaryByResourceGroup ==
    /\ reader.busy
    /\ \E dbErr \in BOOLEAN :
        /\ op' = "GetCostSummary"
        /\ arg' = [filter |-> reader.filter,
                   dbFail |-> IF dbErr THEN "resourceGroup" ELSE "none"]
        /\ ret' = IF dbErr THEN Failed
                  ELSE Ok(CostSummaryOf(
                              reader.byService,
                              GetAggregatedCosts(Visible(records, tx.written),
                                                 reader.filter, "ResourceGroup")))
    /\ reader' = NoReader
    /\ calls' = <<"db.GetAggregatedCosts", "db.GetAggregatedCosts">>
    /\ UNCHANGED <<records, nextId, alerts, nextAlertId, config, tx>>

NextConcurrent ==
    \/ BeginBatch
    \/ ExecRecord
    \/ CommitBatch
    \/ QueryCostRecords
    \/ QueryMonthlyCosts
    \/ SummaryByService
    \/ SummaryByResourceGroup

SpecConcurrent == Init /\ [][NextConcurrent]_vars

NextService ==
    \/ SaveCostRecord
    \/ FetchAndStoreCosts
    \/ GetCurrentCosts
    \/ GetCostSummary
    \/ GetCostHistory
    \/ GenerateReport
    \/ GetTrendAnalysis
    \/ GetLocalForecast

SpecService == Init /\ [][NextService]_vars

Next ==
    \/ SaveCostRecords
    \/ SaveCostRecord

Spec == Init /\ [][Next]_vars

(***************************************************************************)
(* Properties of the store.                                                *)
(***************************************************************************)
\* The fields of a stored row that come from the inserted record.
SameFields(stored, r) ==
    /\ stored.rg = r.rg /\ stored.svc = r.svc /\ stored.cost = r.cost
    /\ stored.cur = r.cur /\ stored.date = r.date

\* The table is the table before the call plus the batch, in order, under
\* fresh ids.
BatchAdded(before, after, batch) ==
    /\ Len(after) = Len(before) + Len(batch)
    /\ SubSeq(after, 1, Len(before)) = before
    /\ \A i \in 1..Len(batch) :
        /\ SameFields(after[Len(before) + i], batch[i])
        /\ \A j \in 1..Len(after) :
            j # Len(before) + i => after[j].id # after[Len(before) + i].id

\* C1 as stated: SaveCostRecords returns an error and leaves the table as it
\* was when the insert of some record k fails; when no insert fails, exactly
\* the N records are added and no error is returned.
C1_AsStated ==
    op = "SaveCostRecords" =>
        /\ arg.fail.step = "exec" => (ret.err /\ records = ret.before)
        /\ arg.fail.step # "exec" =>
               (~ret.err /\ BatchAdded(ret.before, records, arg.batch))

\* C1 (amended): SaveCostRecords is all-or-nothing.  If Begin, Prepare, the
\* insert of some record k or Commit fails, the call returns an error and the
\* table is what it was before the call; if no step fails, exactly the N
\* records are added and no error is returned.
C1_BatchAllOrNothing ==
    op = "SaveCostRecords" =>
        /\ arg.fail.step # "none" => (ret.err /\ records = ret.before)
        /\ arg.fail.step = "none" =>
               (~ret.err /\ BatchAdded(ret.before, records, arg.batch))
        /\ ret.err <=> arg.fail.step # "none"

\* A batch of two whose second insert failed: nothing of it is stored.
C1_Witness ==
    /\ op = "SaveCostRecords"
    /\ Len(arg.batch) = 2
    /\ arg.fail = [step |-> "exec", k |-> 2]
    /\ ret.err
    /\ Len(records) = 1

(***************************************************************************)
(* Properties of the trend and forecast engine.                            *)
(***************************************************************************)
LowLocal(f) == ~f.err /\ f.val.Confidence = "low"
GoodLocal(f) == ~f.err /\ f.val.Confidence \in {"medium", "high"}

\* C2: GetForecast returns the local forecast when its confidence is medium
\* or high; the remote estimate tagged "medium" when the local confidence is
\* low and the remote call succeeds; the low-confidence local forecast when
\* the remote call fails; an error when there is no local forecast and the
\* remote call fails.
C2_ForecastResolution ==
    op = "GetForecast" =>
        /\ GoodLocal(arg.local) => (~ret.err /\ ret.val = arg.local.val)
        /\ (LowLocal(arg.local) /\ ~arg.remote.err) =>
               (~ret.err /\ ret.val.NextMonth = arg.remote.val
                         /\ ret.val.Confidence = "medium")
        /\ (LowLocal(arg.local) /\ arg.remote.err) =>
               (~ret.err /\ ret.val = arg.local.val)
        /\ (arg.local.err /\ arg.remote.err) => ret.err

\* A low-confidence local forecast returned because the remote call failed.
C2_Witness ==
    /\ op = "GetForecast"
    /\ LowLocal(arg.local)
    /\ arg.remote.err
    /\ ~ret.err
    /\ ret.val.Confidence = "low"
    /\ Len(arg.monthly) = 3

RemoteCalls == { i \in DOMAIN calls : calls[i] = "azureCost.GetForecast" }

\* C3: within one GetForecast the remote forecast is requested at most once,
\* only after the local forecast was computed, and only if the local
\* forecast failed or has confidence "low"; with a local confidence of
\* medium or high the remote provider is not called.
C3_RemoteAtMostOnceAfterLocal ==
    op = "GetForecast" =>
        /\ Cardinality(RemoteCalls) <= 1
        /\ \A i \in RemoteCalls : \E j \in 1..(i - 1) : calls[j] = "GetLocalForecast"
        /\ RemoteCalls # {} => (arg.local.err \/ LowLocal(arg.local))
        /\ GoodLocal(arg.local) => RemoteCalls = {}

\* A GetForecast served locally, and one that went to the remote provider.
C3_Witness ==
    /\ op = "GetForecast"
    /\ GoodLocal(arg.local)
    /\ calls = <<"GetLocalForecast">>

\* The change in percent of the two most recent months, from the claim.
PercentChangeOf(cur, prev) ==
    IF RGt(prev, Zero)
    THEN RDiv(RMul(Int2R(100), RSub(cur, prev)), prev)
    ELSE Zero

\* C4: for a non-empty monthly sequence GetTrendAnalysis takes current from
\* element 0 and previous from element 1 (0 if absent), computes
\* percentChange = (current - previous) / previous * 100 when previous > 0
\* and 0 otherwise, and labels the trend "increasing" exactly when
\* percentChange > 5, "decreasing" exactly when percentChange < -5 and
\* "stable" otherwise: exactly 5 and exactly -5 are "stable", and so are a
\* single month and a previous total of 0.
C4_TrendClassification ==
    (op = "GetTrendAnalysis" /\ ~ret.err /\ Len(arg.monthly) > 0) =>
        LET mc == arg.monthly
            cur == mc[1].TotalCost
            prev == IF Len(mc) > 1 THEN mc[2].TotalCost ELSE Zero
            pc == PercentChangeOf(cur, prev)
            \* percentChange > 5 and < -5 without the division
            above == RGt(prev, Zero) /\
                     RGt(RMul(Int2R(100), RSub(cur, prev)), RMul(Int2R(5), prev))
            below == RGt(prev, Zero) /\
                     RLt(RMul(Int2R(100), RSub(cur, prev)), RMul(Int2R(-5), prev))
        IN  /\ ret.val.CurrentMonth = cur
            /\ ret.val.PreviousMonth = prev
            /\ ret.val.ChangePercent = Round2(pc)
            /\ ret.val.Trend = "increasing" <=> above
            /\ ret.val.Trend = "decreasing" <=> below
            /\ ret.val.Trend = "stable" <=> (~above /\ ~below)
            /\ (pc = Int2R(5) \/ pc = Int2R(-5)) => ret.val.Trend = "stable"
            /\ (Len(mc) = 1 \/ prev = Zero) => ret.val.Trend = "stable"

\* A change of exactly +5% reported as "stable".
C4_Witness ==
    /\ op = "GetTrendAnalysis"
    /\ ~ret.err
    /\ Len(arg.monthly) >= 2
    /\ arg.monthly[1].TotalCost = Int2R(105)
    /\ arg.monthly[2].TotalCost = Int2R(100)
    /\ ret.val.ChangePercent = Int2R(5)
    /\ ret.val.Trend = "stable"

\* The sums of the closed form over y[0..k-1], x being the position.
RECURSIVE OlsSumY(_, _)
OlsSumY(y, k) ==
    IF k = 0 THEN Zero ELSE RAdd(OlsSumY(y, k - 1), y[k].TotalCost)

RECURSIVE OlsSumXY(_, _)
OlsSumXY(y, k) ==
    IF k = 0 THEN Zero
    ELSE RAdd(OlsSumXY(y, k - 1), RMul(Int2R(k - 1), y[k].TotalCost))

OlsSumX(n) == (n * (n - 1)) \div 2

OlsSumX2(n) == ((n - 1) * n * (2 * n - 1)) \div 6

OlsDenominator(n) == n * OlsSumX2(n) - OlsSumX(n) * OlsSumX(n)

OlsProjection(y) ==
    LET n == Len(y)
        slope == RDiv(RSub(RMul(Int2R(n), OlsSumXY(y, n)),
                           RMul(Int2R(OlsSumX(n)), OlsSumY(y, n))),
                      Int2R(OlsDenominator(n)))
        intercept == RDiv(RSub(OlsSumY(y, n), RMul(slope, Int2R(OlsSumX(n)))),
                          Int2R(n))
    IN  RAdd(RMul(slope, Int2R(n)), intercept)

\* C5: for a monthly sequence y[0..n-1] in retrieval order with n >= 2,
\* calculateProjection returns slope*n + intercept of the least-squares line
\* through (x, y[x]), x = 0..n-1; the denominator n*Sum(x^2) - Sum(x)^2 is
\* not zero; for n < 2 the projection is 0.
C5_ProjectionIsClosedFormOls ==
    op = "calculateProjection" =>
        LET y == arg.monthly
        IN  IF Len(y) < 2 THEN ret.val = Zero
            ELSE /\ OlsDenominator(Len(y)) # 0
                 /\ IsFinite(ret.val)
                 /\ ret.val = OlsProjection(y)

\* Six months that are not symmetric in time, projected.
C5_Witness ==
    /\ op = "calculateProjection"
    /\ Len(arg.monthly) = 6
    /\ arg.monthly[1].TotalCost = Int2R(105)
    /\ arg.monthly[6].TotalCost = Zero
    /\ ret.val # Zero

\* C6 as stated: every projection reported is non-negative, both NextMonth
\* of GetLocalForecast and Projection of GetTrendAnalysis.
C6_ProjectionsNonNegative ==
    /\ (op = "GetLocalForecast" /\ ~ret.err) => RGe(ret.val.NextMonth, Zero)
    /\ (op = "GetTrendAnalysis" /\ ~ret.err) => RGe(ret.val.Projection, Zero)

ConfidenceRank(c) == IF c = "low" THEN 0 ELSE IF c = "medium" THEN 1 ELSE 2

\* C7: the confidence of the local forecast depends on the number n of
\* monthly data points alone: "low" for n < 4, "medium" for n in {4, 5},
\* "high" for n >= 6; it never decreases when n grows.
C7_ConfidenceByCount ==
    (op = "GetLocalForecast" /\ ~ret.err) =>
        LET n == Len(arg.monthly)
        IN  /\ n < 4 => ret.val.Confidence = "low"
            /\ n \in {4, 5} => ret.val.Confidence = "medium"
            /\ n >= 6 => ret.val.Confidence = "high"
            /\ \A k \in 0..n :
                ConfidenceRank(LocalForecast(SubSeq(arg.monthly, 1, k)).Confidence)
                    <= ConfidenceRank(ret.val.Confidence)

\* A local forecast over six months, of high confidence.
C7_Witness ==
    /\ op = "GetLocalForecast"
    /\ ~ret.err
    /\ Len(arg.monthly) = 6
    /\ ret.val.Confidence = "high"

\* C8: too little data is not an error.  With an empty monthly history
\* GetTrendAnalysis returns trend "no_data" with every number 0; with fewer
\* than 2 monthly points GetLocalForecast returns 0 with confidence "low".
C8_InsufficientDataIsNoError ==
    /\ (op = "GetTrendAnalysis" /\ ~arg.dbErr /\ Len(arg.monthly) = 0) =>
           /\ ~ret.err
           /\ ret.val.Trend = "no_data"
           /\ \A f \in {"CurrentMonth", "PreviousMonth", "ChangePercent",
                        "AverageMonthly", "Projection"} : ret.val[f] = Zero
    /\ (op = "GetLocalForecast" /\ ~arg.dbErr /\ Len(arg.monthly) < 2) =>
           /\ ~ret.err
           /\ ret.val.NextMonth = Zero
           /\ ret.val.Confidence = "low"

\* A trend analysis over an empty store.
C8_Witness ==
    /\ op = "GetTrendAnalysis"
    /\ records = <<>>
    /\ ~ret.err
    /\ ret.val.Trend = "no_data"

(***************************************************************************)
(* Properties of the alert checks and of the free-tier classifier.         *)
(***************************************************************************)
\* total >= threshold on the fractions themselves (both finite).
AtLeast(total, threshold) == total.n * threshold.d >= threshold.n * total.d

\* The positions of the alerts that are enabled and reached by the total.
Reached(as, total) ==
    { i \in DOMAIN as : as[i].Enabled /\ AtLeast(total, as[i].Threshold) }

EnabledOnly(as) == SelectSeq(as, LAMBDA a : a.Enabled)

\* C9: the triggered alerts are exactly the enabled alerts with
\* total >= threshold, a threshold equal to the total included; a disabled
\* alert is never triggered and never reported with a status.
C9_AlertEvaluation ==
    /\ (op = "handleAlertsCheck" /\ ~ret.err) =>
           LET as == arg.alerts
               total == ret.val.current_cost
               hit == Reached(as, total)
           IN  /\ { as[i] : i \in DOMAIN as } = { alerts[i] : i \in DOMAIN alerts }
               /\ total = arg.total
               /\ { ret.val.triggered[i] : i \in DOMAIN ret.val.triggered }
                      = { as[i].Name : i \in hit }
               /\ Len(ret.val.triggered) = Cardinality(hit)
    /\ (op = "alertCheck" /\ ~ret.err) =>
           LET en == EnabledOnly(arg.alerts)
               lines == ret.val.lines
           IN  /\ Len(lines) = Len(en)
               /\ \A i \in DOMAIN lines :
                   /\ lines[i].Name = en[i].Name
                   /\ lines[i].Threshold = en[i].Threshold
                   /\ lines[i].Status = "TRIGGERED" <=> AtLeast(arg.total, en[i].Threshold)
               /\ ret.val.triggered <=> Reached(arg.alerts, arg.total) # {}

\* Alerts budget-5 (5.00) and budget-20 (20.00) against a total of 7.32:
\* budget-5 alone is triggered.
C9_Witness ==
    /\ op = "handleAlertsCheck"
    /\ ~ret.err
    /\ ret.val.current_cost = Rat(732, 100)
    /\ Len(arg.alerts) = 2
    /\ arg.alerts[1].Name = "budget-20" /\ arg.alerts[1].Threshold = Int2R(20)
    /\ arg.alerts[2].Name = "budget-5" /\ arg.alerts[2].Threshold = Int2R(5)
    /\ arg.alerts[1].Enabled /\ arg.alerts[2].Enabled
    /\ ret.val.triggered = <<"budget-5">>

\* The rule of C10 on the inputs: the status for usage against a limit.
RuleStatus(usage, limit) ==
    LET percentUsed == RDiv(usage, limit.Limit)
    IN  IF RGe(percentUsed, Int2R(1)) THEN "overage"
        ELSE IF RGt(limit.WarningThreshold, Zero)
                /\ RGe(percentUsed, limit.WarningThreshold) THEN "warning"
        ELSE "free"

C10_Rule ==
    op = "CheckServiceUsage" =>
        LET usage == arg.usage
            limit == arg.limit
        IN  /\ limit.isNil => ret.val.Status = "unknown"
            /\ ~limit.isNil =>
                /\ ret.val.Status = RuleStatus(usage, limit)
                /\ ret.val.PercentUsed = RMul(RDiv(usage, limit.Limit), Int2R(100))
                /\ (IsFinite(ret.val.PercentUsed) /\ limit.Limit.n # 0) =>
                       ret.val.PercentUsed =
                           Rat(100 * usage.n * limit.Limit.d, usage.d * limit.Limit.n)
                /\ limit.WarningThreshold = Zero => ret.val.Status # "warning"

\* C10 as stated: the rule, and in particular usage == limit is "overage"
\* and usage == WarningThreshold * limit is "warning", for every usage and
\* every limit.
C10_AsStated ==
    /\ C10_Rule
    /\ (op = "CheckServiceUsage" /\ ~arg.limit.isNil) =>
        /\ arg.usage = arg.limit.Limit => ret.val.Status = "overage"
        /\ arg.usage = RMul(arg.limit.WarningThreshold, arg.limit.Limit) =>
               ret.val.Status = "warning"

\* C10 (amended): the rule holds for every usage and every limit; usage ==
\* limit is "overage" when limit # 0 (0/0 is NaN, which compares false and
\* gives "free"); usage == WarningThreshold * limit is "warning" when
\* 0 < WarningThreshold < 1 and limit # 0 (a threshold of 1 gives "overage",
\* a threshold of 0 "free"); a WarningThreshold of 0 never yields "warning".
C10_FreeTierClassification ==
    /\ C10_Rule
    /\ (op = "CheckServiceUsage" /\ ~arg.limit.isNil /\ arg.limit.Limit # Zero) =>
        /\ arg.usage = arg.limit.Limit => ret.val.Status = "overage"
        /\ (arg.usage = RMul(arg.limit.WarningThreshold, arg.limit.Limit)
            /\ RGt(arg.limit.WarningThreshold, Zero)
            /\ RLt(arg.limit.WarningThreshold, Int2R(1))) =>
               ret.val.Status = "warning"

\* usage 600 against a limit of 750 with warning threshold 0.8: "warning",
\* 80 percent.
C10_Witness ==
    /\ op = "CheckServiceUsage"
    /\ arg.usage = Int2R(600)
    /\ arg.limit = ServiceLimit(Int2R(750), Rat(4, 5))
    /\ ret.val.Status = "warning"
    /\ ret.val.PercentUsed = Int2R(80)

(***************************************************************************)
(* Properties of the cost summary.                                         *)
(***************************************************************************)
\* The positions of the stored records whose date lies in the range.
InRange(rows, filter) ==
    { i \in DOMAIN rows :
        /\ filter.StartDate = NoDate \/ DateGE(rows[i].date, filter.StartDate)
        /\ filter.EndDate = NoDate \/ DateGE(filter.EndDate, rows[i].date) }

\* The sum of the costs of the records at the positions of S.
RECURSIVE CostOf(_, _)
CostOf(rows, S) ==
    IF S = {} THEN Zero
    ELSE LET i == CHOOSE x \in S : TRUE
         IN  RAdd(rows[i].cost, CostOf(rows, S \ {i}))

\* The sum of the values of a map.
RECURSIVE SumValues(_)
SumValues(m) ==
    IF DOMAIN m = {} THEN Zero
    ELSE LET k == CHOOSE x \in DOMAIN m : TRUE
         IN  RAdd(m[k], SumValues([x \in DOMAIN m \ {k} |-> m[x]]))

\* C11: the TotalCost of a cost summary is the sum of the per-service totals
\* that GetAggregatedCosts gives for the same date range, and that is the sum
\* of the costs of the stored records whose date lies in the range.
C11_SummaryTotalIsSumOfServices ==
    (op = "GetCostSummary" /\ ~ret.err) =>
        /\ ret.val.TotalCost =
               SumValues(GetAggregatedCosts(records, arg.filter, "ServiceName"))
        /\ ret.val.TotalCost = CostOf(records, InRange(records, arg.filter))

\* A summary over a range that holds two services and leaves a record out.
C11_Witness ==
    /\ op = "GetCostSummary" /\ ~ret.err
    /\ Cardinality(DOMAIN ret.val.ByService) = 2
    /\ InRange(records, arg.filter) # DOMAIN records
    /\ RGt(ret.val.TotalCost, Zero)

(***************************************************************************)
(* Properties of ingestion.                                                *)
(***************************************************************************)
\* Every record of the table before a step is in the table after it, with
\* its id and its fields.
StillStored(before, after) ==
    \A i \in DOMAIN before : \E j \in DOMAIN after : after[j] = before[i]

UniqueIds(rows) ==
    \A i, j \in DOMAIN rows : rows[i].id = rows[j].id => i = j

\* C12: cost records are append-only: whatever operation runs, every record
\* stored before it is stored after it with the same id and field values,
\* and the ids of the stored records are distinct.
C12_CostRecordsAppendOnly ==
    [][StillStored(records, records') /\ UniqueIds(records')]_vars

\* An ingestion that added records to a table that already held some, seen
\* by a later read.
C12_Witness ==
    /\ op = "GetCurrentCosts" /\ ~ret.err
    /\ Len(arg.before) >= 1
    /\ Len(records) > Len(arg.before)
    /\ \E i \in DOMAIN arg.before : \E j \in DOMAIN records :
            j > Len(arg.before) /\ SameFields(records[j], arg.before[i])

\* The total GetCostSummary reports for a range over the table rows.
TotalOf(rows, filter) == CostSummary(rows, filter).TotalCost

\* The table after is the table first followed by the rows of the response
\* and by the rows of the response again, every row under an id of its own.
StoredTwice(first, after, response) ==
    /\ Len(after) = Len(first) + 2 * Len(response)
    /\ \A i \in DOMAIN first : after[i] = first[i]
    /\ \A k \in DOMAIN response :
        /\ SameFields(after[Len(first) + k], response[k])
        /\ SameFields(after[Len(first) + Len(response) + k], response[k])
    /\ UniqueIds(after)

\* A FetchAndStoreCosts that succeeded right after a successful
\* FetchAndStoreCosts with the same provider response.
SecondFetch == op = "FetchAndStoreCosts" /\ ~ret.err /\ ret.repeat

\* C13 as stated: after the second call the total of the range is twice the
\* total after the first call.
C13_AsStated ==
    SecondFetch =>
        /\ StoredTwice(ret.first, records, arg.response)
        /\ TotalOf(records, arg.range) =
               RMul(Int2R(2), TotalOf(ret.before, arg.range))

\* C13: ingestion is not idempotent: two calls of FetchAndStoreCosts with the
\* same provider response store every row of the response twice, under
\* distinct ids with equal field values; the total of the range grows at the
\* second call by what it grew at the first, and it is twice the total after
\* the first call when the range held no record before the first call.
C13_IngestionNotIdempotent ==
    SecondFetch =>
        /\ StoredTwice(ret.first, records, arg.response)
        /\ RSub(TotalOf(records, arg.range), TotalOf(ret.before, arg.range)) =
               RSub(TotalOf(ret.before, arg.range), TotalOf(ret.first, arg.range))
        /\ InRange(ret.first, arg.range) = {} =>
               TotalOf(records, arg.range) =
                   RMul(Int2R(2), TotalOf(ret.before, arg.range))

\* The same row of the current month fetched twice into a table that holds
\* nothing of the range.
C13_Witness ==
    /\ SecondFetch
    /\ Len(arg.response) >= 1
    /\ InRange(ret.first, arg.range) = {}
    /\ RGt(TotalOf(ret.before, arg.range), Zero)
    /\ TotalOf(records, arg.range) = RMul(Int2R(2), TotalOf(ret.before, arg.range))

\* A FetchAndStoreCosts whose provider query failed.
FailedQuery == op = "FetchAndStoreCosts" /\ arg.providerErr

\* C14: when the provider query fails, FetchAndStoreCosts returns an error,
\* leaves the table as it was and calls the provider once and the store not
\* at all; a FetchAndStoreCosts right after it whose query succeeds stores
\* exactly the rows of its own response, as a first call would.
C14_FailedQueryWritesNothing ==
    [][/\ FailedQuery' =>
            /\ ret'.err
            /\ records' = records
            /\ nextId' = nextId
            /\ calls' = <<"azureCost.QueryCostsByService">>
       /\ (FailedQuery /\ op' = "FetchAndStoreCosts" /\ ~ret'.err) =>
            BatchAdded(records, records', arg'.response)]_vars

\* A failed query against a table that holds records.
C14_Witness ==
    /\ FailedQuery
    /\ ret.err
    /\ Len(records) >= 1
    /\ records = ret.before

(***************************************************************************)
(* Properties of failure propagation.                                      *)
(***************************************************************************)
\* The operations that return an error whenever a call they make fails.
PropagatesEveryFailure ==
    /\ op = "GetCostSummary" => (ret.err <=> arg.dbFail # "none")
    /\ op = "GetTrendAnalysis" => (ret.err <=> arg.dbErr)
    /\ op = "FetchAndStoreCosts" =>
           (ret.err <=> (arg.providerErr \/ arg.fail.step # "none"))

\* C15 as stated: each of the six operations returns an error whenever a
\* call it makes fails (for GetCurrentCosts: whenever the fetch, the summary
\* or GetForecast as a whole fails).
C15_AsStated ==
    /\ PropagatesEveryFailure
    /\ op = "GetCurrentCosts" =>
           ((arg.fetchErr \/ arg.dbFail # "none" \/ arg.forecastErr) => ret.err)
    /\ op = "GetCostHistory" => (arg.dbFail # "none" => ret.err)
    /\ op = "GenerateReport" => (arg.dbFail # "none" => ret.err)

\* C15: GetCostSummary, GetTrendAnalysis and FetchAndStoreCosts return an
\* error whenever a store or provider call they make fails.  GetCurrentCosts
\* returns an error exactly when its fetch or its summary fails, and a
\* summary without forecast when GetForecast fails.  GetCostHistory returns
\* an error exactly when its summary fails, and a summary without monthly
\* breakdown when the monthly read fails.  GenerateReport returns an error
\* exactly when its monthly read or its summary fails, and a report with
\* forecast 0 when the local forecast fails.
C15_FailurePropagation ==
    /\ PropagatesEveryFailure
    /\ op = "GetCurrentCosts" =>
        /\ ret.err <=> (arg.fetchErr \/ arg.dbFail # "none")
        /\ (~ret.err /\ arg.forecastErr) => ret.val.Forecast = NilForecast
    /\ op = "GetCostHistory" =>
        /\ ret.err <=> arg.dbFail \in {"service", "resourceGroup"}
        /\ arg.dbFail = "monthly" => ret.val.MonthlyBreakdown = <<>>
    /\ op = "GenerateReport" =>
        /\ ret.err <=> arg.dbFail \in {"monthly", "service", "resourceGroup"}
        /\ arg.dbFail = "forecast" => ret.val.Forecast = Zero

\* GetCurrentCosts returns the error of its summary after its fetch has
\* stored rows.
C15_Witness ==
    /\ op = "GetCurrentCosts"
    /\ arg.dbFail = "resourceGroup"
    /\ ret.err
    /\ Len(records) > Len(arg.before)

(***************************************************************************)
(* Properties of the rounding of the engine's outputs.                     *)
(***************************************************************************)
\* a is an integer multiple of 0.01.
IsCents(a) == IsFinite(a) /\ (a.n * 100) % a.d = 0

\* C16: every monetary and percentage field of a TrendAnalysis and the
\* NextMonth of a local Forecast is an integer multiple of 0.01.
C16_OutputsRoundedToCents ==
    /\ (op = "GetTrendAnalysis" /\ ~ret.err) =>
        /\ IsCents(ret.val.CurrentMonth)
        /\ IsCents(ret.val.PreviousMonth)
        /\ IsCents(ret.val.ChangePercent)
        /\ IsCents(ret.val.AverageMonthly)
        /\ IsCents(ret.val.Projection)
    /\ (op = "GetLocalForecast" /\ ~ret.err) => IsCents(ret.val.NextMonth)

(***************************************************************************)
(* Properties of the alert table.                                          *)
(***************************************************************************)
\* C17: every stored alert has a threshold above 0 and a name no other
\* stored alert has.
C17_AlertsPositiveAndUnique ==
    /\ \A i \in DOMAIN alerts : RGt(alerts[i].Threshold, Zero)
    /\ \A i, j \in DOMAIN alerts : alerts[i].Name = alerts[j].Name => i = j

\* The rows of a table or of a query result, as a set.
RowsOf(seq) == { seq[i] : i \in DOMAIN seq }

Dimension(r, groupBy) == IF groupBy = "ResourceGroup" THEN r.rg ELSE r.svc

\* C19: the keys of GetAggregatedCosts are exactly the dimension values of
\* the stored records with start <= date <= end, an absent bound restricting
\* nothing; each key maps to the sum of the costs of those records that have
\* it, whatever their currency; without such a record the map is empty and
\* there is no error.
C19_AggregatedCosts ==
    (op = "GetAggregatedCosts" /\ ~arg.dbErr) =>
        LET in == InRange(records, arg.filter)
        IN  /\ ~ret.err
            /\ DOMAIN ret.val = { Dimension(records[i], arg.groupBy) : i \in in }
            /\ \A k \in DOMAIN ret.val :
                   ret.val[k] =
                       CostOf(records,
                              { i \in in : Dimension(records[i], arg.groupBy) = k })
            /\ in = {} => DOMAIN ret.val = {}

\* A key that sums records of two currencies, over a range with both bounds
\* that leaves a record out.
C19_Witness ==
    /\ op = "GetAggregatedCosts" /\ ~ret.err
    /\ arg.filter.StartDate # NoDate /\ arg.filter.EndDate # NoDate
    /\ InRange(records, arg.filter) # DOMAIN records
    /\ \E i, j \in InRange(records, arg.filter) :
        /\ Dimension(records[i], arg.groupBy) = Dimension(records[j], arg.groupBy)
        /\ records[i].cur # records[j].cur

\* The positions of the records of a month with date >= now - months.
InMonth(rows, months, month) ==
    { i \in DOMAIN rows :
        /\ rows[i].date.m = month
        /\ DateGE(rows[i].date, Date(Now.m - months, Now.d)) }

MonthDescending(entries) ==
    \A i, j \in DOMAIN entries : i < j => entries[i].Month >= entries[j].Month

\* C20 as stated: the entries are ordered by month descending and the total
\* of every entry is the sum of the costs of the records of its month that
\* lie in the lookback.
C20_AsStated ==
    (op = "GetMonthlyCosts" /\ ~ret.err) =>
        /\ MonthDescending(ret.val)
        /\ \A e \in DOMAIN ret.val :
               ret.val[e].TotalCost =
                   CostOf(records, InMonth(records, arg.months, ret.val[e].Month))

\* C20: the entries are ordered by month descending, there is one entry for
\* each month and currency that has a record in the lookback, and the total
\* of every entry is the sum of the costs of the records of its month and
\* its currency that lie in the lookback; older records are in no entry.
C20_MonthlyTotals ==
    (op = "GetMonthlyCosts" /\ ~arg.dbErr) =>
        /\ ~ret.err
        /\ MonthDescending(ret.val)
        /\ \A e \in DOMAIN ret.val :
               LET S == { i \in InMonth(records, arg.months, ret.val[e].Month) :
                            records[i].cur = ret.val[e].Currency }
               IN  S # {} /\ ret.val[e].TotalCost = CostOf(records, S)
        /\ \A e, f \in DOMAIN ret.val :
               (/\ ret.val[e].Month = ret.val[f].Month
                /\ ret.val[e].Currency = ret.val[f].Currency) => e = f
        /\ \A i \in DOMAIN records :
               DateGE(records[i].date, Date(Now.m - arg.months, Now.d)) <=>
                   \E e \in DOMAIN ret.val :
                       /\ ret.val[e].Month = records[i].date.m
                       /\ ret.val[e].Currency = records[i].cur

\* Two entries of this month, one for each currency, and a record older
\* than the lookback in none.
C20_Witness ==
    /\ op = "GetMonthlyCosts" /\ ~ret.err
    /\ Len(ret.val) = 2
    /\ ret.val[1].Month = ret.val[2].Month
    /\ \E i \in DOMAIN records :
           ~DateGE(records[i].date, Date(Now.m - arg.months, Now.d))

(***************************************************************************)
(* Properties of the history the engine works on.                          *)
(***************************************************************************)
\* C21: the monthly sequence that GetLocalForecast and GetTrendAnalysis
\* regress over, and that GetLocalForecast counts for the confidence, has
\* at most 6 elements.
C21_AtMostSixMonthlyPoints ==
    (op \in {"GetLocalForecast", "GetTrendAnalysis"} /\ ~ret.err) =>
        Len(arg.monthly) <= 6

(***************************************************************************)
(* Properties of the read operations.                                      *)
(***************************************************************************)
ReadOps ==
    {"GetCostSummary", "GetCostHistory", "GetTrendAnalysis", "GetLocalForecast",
     "GetForecast", "GenerateReport"}

\* A read leaves the cost records, the alerts and the config entries as
\* they were.
ReadFrame ==
    op' \in ReadOps => records' = records /\ alerts' = alerts /\ config' = config

\* C22: the read operations leave the cost records, the alerts and the
\* config entries unchanged, and a read that follows the same read on an
\* unchanged store, with the same outcomes of the store and of the remote
\* provider, returns the same result.
C22_ReadsArePure ==
    [][/\ ReadFrame
       /\ (op' \in ReadOps /\ op' = op /\ arg' = arg /\ records' = records)
              => ret' = ret]_vars

(***************************************************************************)
(* Properties of a batch insert that runs beside the reads.                *)
(***************************************************************************)
\* The tables that hold all the records of every batch committed so far
\* and no other record.
Snapshots ==
    { SubSeq(records, 1, n) : n \in { k \in tx.commits : k <= Len(records) } }

\* C23: no read beside a batch insert observes a partially written batch.
\* The result of every query of GetCostRecords, GetMonthlyCosts and
\* GetCostSummary is its result on a table that holds, of every batch, all
\* the records or none, and none of a batch that is not committed.
C23_NoPartialBatch ==
    /\ (op = "GetCostRecords" /\ ~ret.err) =>
           \E t \in Snapshots : ret.val \in GetCostRecords(t, arg.filter, "")
    /\ (op = "GetMonthlyCosts" /\ ~ret.err) =>
           \E t \in Snapshots : ret.val \in GetMonthlyCosts(t, arg.months)
    /\ (op = "GetCostSummary" /\ ~ret.err) =>
           /\ \E t \in Snapshots :
                  ret.val.ByService =
                      GetAggregatedCosts(t, arg.filter, "ServiceName")
           /\ \E t \in Snapshots :
                  ret.val.ByResourceGroup =
                      GetAggregatedCosts(t, arg.filter, "ResourceGroup")

\* A read of the monthly costs while the first of the two records of a
\* batch is written and the second is not.
C23_Witness ==
    /\ op = "GetMonthlyCosts" /\ ~ret.err
    /\ tx.open /\ Len(tx.batch) = 2 /\ Len(tx.written) = 1
    /\ Len(records) > 0
    /\ tx.written[1].date.m = Now.m

(***************************************************************************)
(* Properties of the trend analysis and of the projection.                 *)
(***************************************************************************)
\* C24: in a trend analysis over a non-empty history CurrentMonth is the
\* total of all the records of the most recent month returned,
\* PreviousMonth is the total of a different, earlier month (0 if there is
\* none), and no two entries of the monthly costs have the same month.
C24_CurrentAndPreviousMonth ==
    (op = "GetTrendAnalysis" /\ ~ret.err /\ Len(arg.monthly) > 0) =>
        LET mc == arg.monthly
            earlier == { mc[i].Month : i \in DOMAIN mc } \ { mc[1].Month }
        IN  /\ \A i, j \in DOMAIN mc : mc[i].Month = mc[j].Month => i = j
            /\ \A m \in earlier : m < mc[1].Month
            /\ ret.val.CurrentMonth =
                   CostOf(records, InMonth(records, 6, mc[1].Month))
            /\ IF earlier = {} THEN ret.val.PreviousMonth = Zero
               ELSE \E m \in earlier :
                        ret.val.PreviousMonth =
                            CostOf(records, InMonth(records, 6, m))

\* C25 as stated: the trend is "increasing" only if the reported
\* ChangePercent is above 5 and "decreasing" only if it is below -5; a
\* reported ChangePercent of exactly 5.00 or -5.00 carries "stable".
C25_AsStated ==
    (op = "GetTrendAnalysis" /\ ~ret.err) =>
        /\ ret.val.Trend = "increasing" => RGt(ret.val.ChangePercent, Int2R(5))
        /\ ret.val.Trend = "decreasing" => RLt(ret.val.ChangePercent, Int2R(-5))
        /\ ret.val.ChangePercent \in {Int2R(5), Int2R(-5)} =>
               ret.val.Trend = "stable"

\* C25: the trend is "increasing" only if the reported ChangePercent is at
\* least 5.00, "decreasing" only if it is at most -5.00, and "stable" only
\* if it is between -5.00 and 5.00; a reported ChangePercent of exactly
\* 5.00 carries "increasing" when the change before rounding is above 5 and
\* "stable" otherwise, one of exactly -5.00 carries "decreasing" when the
\* change before rounding is below -5 and "stable" otherwise.
C25_TrendAgainstReportedChange ==
    (op = "GetTrendAnalysis" /\ ~ret.err /\ Len(arg.monthly) > 0) =>
        LET mc == arg.monthly
            pc == PercentChangeOf(mc[1].TotalCost,
                                  IF Len(mc) > 1 THEN mc[2].TotalCost ELSE Zero)
            reported == ret.val.ChangePercent
        IN  /\ ret.val.Trend = "increasing" => RGe(reported, Int2R(5))
            /\ ret.val.Trend = "decreasing" => RGe(Int2R(-5), reported)
            /\ ret.val.Trend = "stable" =>
                   RGe(reported, Int2R(-5)) /\ RGe(Int2R(5), reported)
            /\ reported = Int2R(5) =>
                   ret.val.Trend = IF RGt(pc, Int2R(5)) THEN "increasing" ELSE "stable"
            /\ reported = Int2R(-5) =>
                   ret.val.Trend = IF RLt(pc, Int2R(-5)) THEN "decreasing" ELSE "stable"

\* A change of 5.004% reported as 5.00 with the trend "increasing".
C25_Witness ==
    /\ op = "GetTrendAnalysis" /\ ~ret.err
    /\ ret.val.ChangePercent = Int2R(5)
    /\ ret.val.Trend = "increasing"
    /\ ret.val.PreviousMonth = Int2R(100)

\* The totals of a newest-first monthly sequence rise, or fall, from each
\* month to the next one in time.
RisingOverTime(mc) ==
    \A i \in 1..(Len(mc) - 1) :
        mc[i].Month > mc[i + 1].Month /\ RGt(mc[i].TotalCost, mc[i + 1].TotalCost)

FallingOverTime(mc) ==
    \A i \in 1..(Len(mc) - 1) :
        mc[i].Month > mc[i + 1].Month /\ RLt(mc[i].TotalCost, mc[i + 1].TotalCost)

\* C26: when the monthly totals strictly increase over calendar time the
\* projection for the next month is not lower than the total of the most
\* recent month, and when they strictly decrease it is not higher.
C26_ProjectionFollowsDirection ==
    (op = "calculateProjection" /\ Len(arg.monthly) >= 2) =>
        /\ RisingOverTime(arg.monthly) =>
               RGe(ret.val, arg.monthly[1].TotalCost)
        /\ FallingOverTime(arg.monthly) =>
               RGe(arg.monthly[1].TotalCost, ret.val)

(***************************************************************************)
(* Properties of the totals of summaries and reports.                      *)
(***************************************************************************)
\* C27: in every cost summary the per-resource-group totals and the
\* per-service totals add up to the same value, the TotalCost.
C27_GroupTotalsAgree ==
    (op = "GetCostSummary" /\ ~ret.err) =>
        /\ SumValues(ret.val.ByResourceGroup) = SumValues(ret.val.ByService)
        /\ SumValues(ret.val.ByService) = ret.val.TotalCost

\* A summary over a bounded range with two services in three resource
\* groups, one of them the empty one.
C27_Witness ==
    /\ op = "GetCostSummary" /\ ~ret.err
    /\ arg.filter.StartDate # NoDate
    /\ Cardinality(DOMAIN ret.val.ByService) = 2
    /\ Cardinality(DOMAIN ret.val.ByResourceGroup) = 3
    /\ "" \in DOMAIN ret.val.ByResourceGroup

\* C28: the TotalCost of a report is the sum of the totals of the entries
\* of its MonthlyData: the total covers the records of the monthly
\* breakdown, the reported period.
C28_ReportTotalIsSumOfMonths ==
    (op = "GenerateReport" /\ ~ret.err) =>
        ret.val.TotalCost = SumTotals(ret.val.MonthlyData, 1)

(***************************************************************************)
(* The alert check of the CLI against the alert check of the API.          *)
(***************************************************************************)
\* The total `alert check` evaluates the alerts against, and the names of
\* the alerts it prints as TRIGGERED.
CliTotal(rows) == CostSummary(rows, CurrentMonthDateRange).TotalCost

CliTriggered(as, rows) ==
    LET lines == IF Len(as) = 0 THEN <<>>
                 ELSE AlertStatusLines(as, 1, CliTotal(rows))
    IN  { lines[i].Name : i \in { j \in DOMAIN lines :
                                      lines[j].Status = "TRIGGERED" } }

\* The total /api/v1/alerts/check evaluates the alerts against, and the
\* names it returns as triggered.
ApiTotal(rows) == CostSummary(rows, CostFilter(NoDate, NoDate)).TotalCost

ApiTriggered(as, rows) ==
    LET names == TriggeredNames(as, 1, ApiTotal(rows))
    IN  { names[i] : i \in DOMAIN names }

\* C29: on the same store `cost alert check` and /api/v1/alerts/check
\* evaluate the alerts against the same total and deem the same alerts
\* triggered.
C29_SameAlertsTriggered ==
    /\ (op = "handleAlertsCheck" /\ ~ret.err) =>
           /\ ret.val.current_cost = CliTotal(records)
           /\ { ret.val.triggered[i] : i \in DOMAIN ret.val.triggered }
                  = CliTriggered(arg.alerts, records)
    /\ (op = "alertCheck" /\ ~ret.err) =>
           /\ arg.total = ApiTotal(records)
           /\ { ret.val.lines[i].Name :
                    i \in { j \in DOMAIN ret.val.lines :
                              ret.val.lines[j].Status = "TRIGGERED" } }
                  = ApiTriggered(arg.alerts, records)

(***************************************************************************)
(* Properties of the LLM provider of `dev build` and `dev review`.         *)
(***************************************************************************)
\* C30: when Ollama cannot serve the request of `dev build` or `dev
\* review`, the request goes to the Anthropic provider, and the command
\* succeeds when Anthropic can serve it and the file can be read or written.
C30_FallbackToAnthropic ==
    (op \in {"devBuild", "devReview"} /\ "ollama" \notin arg.serving
        /\ ~arg.fileErr) =>
        /\ \E i \in DOMAIN calls : calls[i] = "anthropic"
        /\ "anthropic" \in arg.serving =>
               ~ret.err /\ ret.val.provider = "anthropic"

====
